---- MODULE Spec2Model ----
(***************************************************************************)
(* Seating planner (src/src/app/page.tsx): the guest list, the list view's *)
(* table count and per-table capacity, and the room canvas' tables with    *)
(* their guest-id arrays.  One action per event handler; a handler's       *)
(* setState calls are applied in order to the previous state and the       *)
(* persist effect stores the snapshot of the state they produce.           *)
(*                                                                         *)
(* The room designer of the same page (fixtures, room settings, selection),*)
(* the WeddingLayout component, the signed-in page with its GuestEditor    *)
(* and the KitchenSummary component are further state machines over their  *)
(* own variables; each has its own specification below.                    *)
(***************************************************************************)
EXTENDS Integers, Sequences, FiniteSets, TLC

VARIABLES
  tables,        \* useState(16): number of tables of the list view
  capacity,      \* useState(10): seats per table of the list view
  guests,        \* useState<Guest[]>: sequence of [id, name, table]
  canvasTables,  \* canvasState.tables: sequence of Table records
  uidCount,      \* number of ids uid() has handed out (ids are never reused)
  saved,         \* localStorage[STORAGE_KEY], written by the persist effect
  lastOp,        \* the handler that ran last, its arguments and its alert
  duplicateWarning, \* useState<string[]>: warnings of the last pasted list
  fixtures,      \* canvasState.fixtures: sequence of Fixture records
  roomSettings,  \* useState<RoomSettings>: [gridSize, snapToGrid]
  selectedItem,  \* canvasState.selectedItem: <<>> (null) or <<[type, id]>>
  wlTables,      \* WeddingLayout: useState<Table[]>
  wlFixtures,    \* WeddingLayout: useState<Fixture[]>
  wlRoomSettings,\* WeddingLayout: roomSettings, [gridSize, snapToGrid]
  wlSelectedItem,\* WeddingLayout: selectedItem, <<>> (null) or <<[type, id]>>
  wlClock,       \* WeddingLayout: the last Date.now() an id was made of
  wlLayoutType,  \* WeddingLayout: the currentLayoutType prop
  wlStored,      \* the layouts table: per layout type, <<>> or <<the stored row>>
  wlPending,     \* WeddingLayout: the requests to the layouts table in flight
  wlLatent,      \* whether an upsert outlives the gesture that sent it
  cloudGuests,   \* signed-in page: useState<Guest[]>
  cloudTables,   \* signed-in page: useState<Table[]>, [number, capacity]
  editingGuest,  \* signed-in page: <<>> (null) or <<the guest handed to GuestEditor>>
  formData,      \* GuestEditor: useState<Partial<Guest>>
  kitchen,       \* KitchenSummary: <<>> (not mounted) or <<what its memos hold>>
  currentEventId,\* signed-in page: the selected event, NULL for none
  cloudGroups,   \* signed-in page: useState<Group[]>
  managerGroups, \* GroupsManager: useState<Group[]>
  selectedGroupId,\* signed-in page: the group the list is filtered by, or NULL
  storedGuests,  \* the guests table: the rows of the selected event
  storedGroups,  \* the groups table: the rows of the selected event
  cloudPending   \* signed-in page: the loads in flight

\* the room designer of page.tsx
designerVars == <<fixtures, roomSettings, selectedItem>>
\* the WeddingLayout component
weddingVars == <<wlTables, wlFixtures, wlRoomSettings, wlSelectedItem, wlClock,
                 wlLayoutType, wlStored, wlPending, wlLatent>>
\* the signed-in page and its GuestEditor
cloudVars == <<cloudGuests, cloudTables, editingGuest, formData, kitchen>>
\* the events, the groups and the tables behind the signed-in page
eventVars == <<currentEventId, cloudGroups, managerGroups, selectedGroupId,
               storedGuests, storedGroups, cloudPending>>
\* the guest list and the canvas tables of page.tsx
listVars == <<tables, capacity, guests, canvasTables, uidCount, saved, lastOp,
              duplicateWarning>>

vars == <<tables, capacity, guests, canvasTables, uidCount, saved, lastOp,
          duplicateWarning, fixtures, roomSettings, selectedItem,
          wlTables, wlFixtures, wlRoomSettings, wlSelectedItem, wlClock,
          wlLayoutType, wlStored, wlPending, wlLatent,
          cloudGuests, cloudTables, editingGuest, formData, kitchen,
          currentEventId, cloudGroups, managerGroups, selectedGroupId,
          storedGuests, storedGroups, cloudPending>>

\* ----------------------------------------------------------------------
\* Bounds of the model
\* ----------------------------------------------------------------------
MaxUid == 3          \* ids handed out by uid() in one behaviour
MaxKeyOffset == 1    \* how far from the anchor the arrow keys are followed
MaxLayoutTables == 2  \* tables on the canvas of the room designer's behaviours
MaxGridSize == 4     \* grid sizes a loaded room starts with
MaxSnapValue == 50   \* |v| of the coordinates snapToGrid is compared on
MaxSnapFixtures == 1 \* fixtures on the canvas while snapToGrid is exercised
MaxWeddingClock == 2 \* ids WeddingLayout makes in one behaviour
MaxKitchenGuests == 2 \* guests of the event the kitchen summary is shown for
MaxRoster == 1       \* guests of the saved plan names are pasted into
MaxInFlight == 2
MaxGroupGuests == 2     \* requests to the layouts table in flight when a gesture is made

\* ----------------------------------------------------------------------
\* Program constants
\* ----------------------------------------------------------------------
DefaultTables == 16
DefaultCapacity == 10
DefaultTableCapacity == 8
DefaultGridSize == 10
WeddingGridSize == 20
NULL == 0            \* null table / no guest: table numbers and ids are >= 1

\* ----------------------------------------------------------------------
\* Sequence helpers (Array.prototype.map / filter / includes / find)
\* ----------------------------------------------------------------------
Includes(s, e) == \E i \in 1..Len(s) : s[i] = e

\* s.filter(v => v !== e)
RECURSIVE Without(_, _)
Without(s, e) ==
  IF s = <<>> THEN <<>>
  ELSE IF Head(s) = e THEN Without(Tail(s), e)
       ELSE <<Head(s)>> \o Without(Tail(s), e)

\* gs.filter(g => g.id !== id)
RECURSIVE WithoutId(_, _)
WithoutId(s, id) ==
  IF s = <<>> THEN <<>>
  ELSE IF Head(s).id = id THEN WithoutId(Tail(s), id)
       ELSE <<Head(s)>> \o WithoutId(Tail(s), id)

\* Math.max
Max(a, b) == IF a >= b THEN a ELSE b

\* String.prototype.trim on a name given as a sequence of characters
RECURSIVE TrimStart(_)
TrimStart(s) ==
  IF s # <<>> /\ Head(s) = " " THEN TrimStart(Tail(s)) ELSE s

RECURSIVE TrimEnd(_)
TrimEnd(s) ==
  IF s # <<>> /\ s[Len(s)] = " " THEN TrimEnd(SubSeq(s, 1, Len(s) - 1)) ELSE s

Trim(s) == TrimEnd(TrimStart(s))

\* ----------------------------------------------------------------------
\* Inputs of the handlers
\* ----------------------------------------------------------------------
Space == " "
NameInputs == {<<>>, <<Space>>, <<"a">>, <<Space, "a">>}   \* nameInput
TableInputs == {0, 1, 2}             \* tableInput, 0 standing for ""
NumberInputs == {0, 1}               \* Number(e.target.value), parseInt(prompt)
BatchSizes == {1, 2}                 \* lines of one imported guest list
AnchorShapes == {"round"}                       \* "Add Round Table"
AnchorPoints == {<<100, 100>>}                  \* addTableToCanvas(100, 100, ...)
ResizeDims == {<<10, 10>>}                      \* ref.style.width, height
Ids == 1..MaxUid                                \* uid() values
KeyWindow == (100 - MaxKeyOffset)..(100 + MaxKeyOffset)   \* coordinates the arrow keys reach

\* ----------------------------------------------------------------------
\* Derived values
\* ----------------------------------------------------------------------
\* tableMap.get(n).length: the guests whose table field is n
TableMapCount(gs, n) == Cardinality({i \in 1..Len(gs) : gs[i].table = n})

\* canvasState.tables.find(t => t.id === tableId), as an index (0: undefined)
FindTable(ts, tableId) ==
  IF \E i \in 1..Len(ts) : ts[i].id = tableId
  THEN CHOOSE i \in 1..Len(ts) :
         ts[i].id = tableId /\ \A j \in 1..(i - 1) : ts[j].id # tableId
  ELSE 0

\* the object handed to saveState
Snapshot(t, c, gs, ts) == [tables |-> t, capacity |-> c, guests |-> gs, canvasTables |-> ts]

Op(name, g, t, from, alert) == [op |-> name, g |-> g, t |-> t, from |-> from, alert |-> alert]

\* the record of a handler no property needs to tell apart
Other == Op("other", NULL, NULL, NULL, "none")

\* a render with the new state, followed by the persist effect
Commit(t, c, gs, ts, op) ==
  /\ tables' = t
  /\ capacity' = c
  /\ guests' = gs
  /\ canvasTables' = ts
  /\ saved' = Snapshot(t, c, gs, ts)
  /\ lastOp' = op
  /\ UNCHANGED <<designerVars, weddingVars, cloudVars, eventVars>>

\* useState<RoomSettings>({ ..., gridSize: 10, snapToGrid: true, ... })
DefaultRoomSettings == [gridSize |-> DefaultGridSize, snapToGrid |-> TRUE]

\* WeddingLayout: useState({ ..., gridSize: 20, snapToGrid: true, ... })
WeddingRoomSettings == [gridSize |-> WeddingGridSize, snapToGrid |-> TRUE]

\* WeddingLayout: what saveLayout sends and a row of the layouts table holds
LayoutSnapshot(room, ts, fs) == [room |-> room, tables |-> ts, fixtures |-> fs]

\* the state WeddingLayout mounts with
DefaultLayout == LayoutSnapshot(WeddingRoomSettings, <<>>, <<>>)

LayoutTypes == {"reception", "ceremony"}      \* two of the three layout types

\* the layouts table of an event without layouts
NoLayouts == [type \in LayoutTypes |-> <<>>]

\* upsert of the row of (event, layout type)
Upsert(stored, type, snap) == [stored EXCEPT ![type] = <<snap>>]

\* loadLayout leaving, with the layout type and the state its closure holds
LoadRequest(type, snap) == [kind |-> "load", type |-> type, snap |-> snap]

\* saveLayout leaving
SaveRequest(type, snap) == [kind |-> "save", type |-> type, snap |-> snap]

\* GuestEditor: the initial formData (name: '', table_num: null)
EmptyForm == [name |-> <<>>, table_num |-> NULL]

Init ==
  /\ tables = DefaultTables
  /\ capacity = DefaultCapacity
  /\ guests = <<>>
  /\ canvasTables = <<>>
  /\ uidCount = 0
  /\ saved = Snapshot(DefaultTables, DefaultCapacity, <<>>, <<>>)
  /\ lastOp = Op("mount", NULL, NULL, NULL, "none")
  /\ duplicateWarning = <<>>
  /\ fixtures = <<>>
  /\ roomSettings = DefaultRoomSettings
  /\ selectedItem = <<>>
  /\ wlTables = <<>>
  /\ wlFixtures = <<>>
  /\ wlRoomSettings = WeddingRoomSettings
  /\ wlSelectedItem = <<>>
  /\ wlClock = 0
  /\ wlLayoutType = "reception"
  /\ wlStored = Upsert(NoLayouts, "reception", DefaultLayout)
  /\ wlPending = {LoadRequest("reception", DefaultLayout)}
  /\ wlLatent = FALSE
  /\ cloudGuests = <<>>
  /\ cloudTables = <<>>
  /\ editingGuest = <<>>
  /\ formData = EmptyForm
  /\ kitchen = <<>>
  /\ currentEventId = NULL
  /\ cloudGroups = <<>>
  /\ managerGroups = <<>>
  /\ selectedGroupId = NULL
  /\ storedGuests = <<>>
  /\ storedGroups = <<>>
  /\ cloudPending = {}

\* ----------------------------------------------------------------------
\* List view: guests, table count, capacity
\* ----------------------------------------------------------------------
\* addGuest: the table the new guest gets (NULL when none is requested, the
\* request is out of range, or the requested table is full)
ValidTableInput(tableInput, t) ==
  IF tableInput # 0 /\ tableInput >= 1 /\ tableInput <= t THEN tableInput ELSE NULL

\* an addGuest that seats the guest at the requested table although it is full
IntendedTableUnchecked(tableInput, t, c, gs) == ValidTableInput(tableInput, t)

IntendedTable(tableInput, t, c, gs) ==
  LET intended == ValidTableInput(tableInput, t)
  IN IF intended # NULL /\ TableMapCount(gs, intended) >= c THEN NULL ELSE intended

AddGuestAlert(tableInput, t, c, gs) ==
  LET intended == ValidTableInput(tableInput, t)
  IN IF intended # NULL /\ TableMapCount(gs, intended) >= c THEN "fullAddedWithoutTable"
     ELSE "none"

NewGuest(id, name, table) == [id |-> id, name |-> name, table |-> table]

AddGuest(nameInput, tableInput) ==
  LET name == Trim(nameInput)
  IN IF name = <<>>
     THEN UNCHANGED vars
     ELSE /\ uidCount < MaxUid
          /\ uidCount' = uidCount + 1
          /\ UNCHANGED duplicateWarning
          /\ Commit(tables, capacity,
                    <<NewGuest(uidCount + 1, name,
                               IntendedTable(tableInput, tables, capacity, guests))>> \o guests,
                    canvasTables,
                    Op("addGuest", NULL, tableInput, NULL,
                       AddGuestAlert(tableInput, tables, capacity, guests)))

\* prev.map(g => g.id === guestId ? { ...g, table: newTable } : g)
AssignTable(gs, guestId, newTable) ==
  [i \in 1..Len(gs) |-> IF gs[i].id = guestId THEN [gs[i] EXCEPT !.table = newTable] ELSE gs[i]]

\* the table select of a guest row: val "" is NULL, the options are 1..tables
SelectTable(i, val) ==
  /\ i \in 1..Len(guests)
  /\ val \in {NULL} \cup (1..tables)
  /\ val # guests[i].table
  /\ UNCHANGED <<uidCount, duplicateWarning>>
  /\ IF val = NULL
     THEN Commit(tables, capacity, AssignTable(guests, guests[i].id, NULL), canvasTables,
                 Other)
     ELSE IF TableMapCount(guests, val) >= capacity
     THEN /\ lastOp' = Other
          /\ UNCHANGED <<tables, capacity, guests, canvasTables, saved,
                       designerVars, weddingVars, cloudVars, eventVars>>
     ELSE Commit(tables, capacity, AssignTable(guests, guests[i].id, val), canvasTables,
                 Other)

RemoveGuest(id) ==
  /\ \E i \in 1..Len(guests) : guests[i].id = id
  /\ UNCHANGED <<uidCount, duplicateWarning>>
  /\ Commit(tables, capacity, WithoutId(guests, id), canvasTables,
            Other)

\* confirmed by the user
ClearAll ==
  /\ UNCHANGED <<uidCount, duplicateWarning>>
  /\ Commit(tables, capacity, <<>>, canvasTables, Other)

\* confirmed by the user
ResetAssignments ==
  /\ UNCHANGED <<uidCount, duplicateWarning>>
  /\ Commit(tables, capacity,
            [i \in 1..Len(guests) |-> [guests[i] EXCEPT !.table = NULL]],
            canvasTables, Other)

\* Math.max(1, Number(e.target.value) || 1)
ClampInput(v) == Max(1, IF v = 0 THEN 1 ELSE v)

SetTables(v) ==
  /\ UNCHANGED <<uidCount, duplicateWarning>>
  /\ Commit(ClampInput(v), capacity, guests, canvasTables,
            Other)

SetCapacity(v) ==
  /\ UNCHANGED <<uidCount, duplicateWarning>>
  /\ Commit(tables, ClampInput(v), guests, canvasTables,
            Other)

\* ----------------------------------------------------------------------
\* Import
\* ----------------------------------------------------------------------
ImportedName == <<"a">>      \* the name every imported line carries here

\* handleFileImport: guestNames.map(name => ({ id: uid(), ..., table: null }))
FileGuests(n, firstId) ==
  [k \in 1..n |-> NewGuest(firstId + k - 1, Trim(ImportedName), NULL)]

FileImport(n) ==
  /\ n >= 1
  /\ uidCount + n <= MaxUid
  /\ uidCount' = uidCount + n
  /\ UNCHANGED duplicateWarning
  /\ Commit(tables, capacity, guests \o FileGuests(n, uidCount + 1), canvasTables,
            Other)

\* handlePasteImport: a line is its "@N" suffix (0: no suffix)
HintTable(hint, t) == IF hint >= 1 /\ hint <= t THEN hint ELSE NULL

\* String.prototype.toLowerCase on a name given as a sequence of characters
UpperCase == <<"A", "B", "C", "D", "E", "F", "G", "H", "I", "J", "K", "L", "M",
               "N", "O", "P", "Q", "R", "S", "T", "U", "V", "W", "X", "Y", "Z">>
LowerCase == <<"a", "b", "c", "d", "e", "f", "g", "h", "i", "j", "k", "l", "m",
               "n", "o", "p", "q", "r", "s", "t", "u", "v", "w", "x", "y", "z">>

LowerChar(c) ==
  IF \E k \in 1..Len(UpperCase) : UpperCase[k] = c
  THEN LowerCase[CHOOSE k \in 1..Len(UpperCase) : UpperCase[k] = c]
  ELSE c

ToLowerCase(s) == [k \in 1..Len(s) |-> LowerChar(s[k])]

Min3(a, b, c) == IF a <= b /\ a <= c THEN a ELSE IF b <= c THEN b ELSE c

\* levenshteinDistance: row i of the matrix, built left to right from row
\* i - 1 (prev); cur holds matrix[i][0 .. Len(cur) - 1]
RECURSIVE LevenshteinRow(_, _, _, _)
LevenshteinRow(str1, ch, prev, cur) ==
  LET j == Len(cur)
  IN IF j > Len(str1) THEN cur
     ELSE LevenshteinRow(str1, ch, prev,
            Append(cur,
                   IF ch = str1[j] THEN prev[j]
                   ELSE Min3(prev[j] + 1, cur[j] + 1, prev[j + 1] + 1)))

\* rows i .. str2.length, prev being row i - 1
RECURSIVE LevenshteinRows(_, _, _, _)
LevenshteinRows(str1, str2, i, prev) ==
  IF i > Len(str2) THEN prev
  ELSE LevenshteinRows(str1, str2, i + 1, LevenshteinRow(str1, str2[i], prev, <<i>>))

\* matrix[str2.length][str1.length]; row 0 is 0 .. str1.length
LevenshteinDistance(str1, str2) ==
  LevenshteinRows(str1, str2, 1, [j \in 1..(Len(str1) + 1) |-> j - 1])[Len(str1) + 1]

\* calculateSimilarity, as the fraction num / den
CalculateSimilarity(str1, str2) ==
  LET longer == IF Len(str1) > Len(str2) THEN str1 ELSE str2
      shorter == IF Len(str1) > Len(str2) THEN str2 ELSE str1
  IN IF Len(longer) = 0 THEN [num |-> 1, den |-> 1]
     ELSE [num |-> Len(longer) - LevenshteinDistance(longer, shorter), den |-> Len(longer)]

\* a threshold test that also accepts a similarity of exactly 0.8
AboveThresholdInclusive(sim) == sim.num * 10 >= sim.den * 8

\* similarity > 0.8
AboveThreshold(sim) == sim.num * 10 > sim.den * 8

\* guests.find(g => g.name.toLowerCase() === existing)?.name
OriginalName(gs, existing) ==
  gs[CHOOSE i \in 1..Len(gs) :
       /\ ToLowerCase(gs[i].name) = existing
       /\ \A j \in 1..(i - 1) : ToLowerCase(gs[j].name) # existing].name

\* `${name} (exact match)`
ExactWarning(name) == [name |-> name, kind |-> "exact", to |-> <<>>]

\* `${name} (similar to "${...}")`
SimilarWarning(name, to) == [name |-> name, kind |-> "similar", to |-> to]

\* the inner forEach over existingNames, from the k-th on
RECURSIVE SimilarWarnings(_, _, _)
SimilarWarnings(gs, name, k) ==
  IF k > Len(gs) THEN <<>>
  ELSE LET existing == ToLowerCase(gs[k].name)
           nameLower == ToLowerCase(name)
       IN (IF existing # nameLower
              /\ AboveThreshold(CalculateSimilarity(nameLower, existing))
           THEN <<SimilarWarning(name, OriginalName(gs, existing))>>
           ELSE <<>>)
          \o SimilarWarnings(gs, name, k + 1)

\* the warnings one candidate name pushes
WarningsFor(gs, name) ==
  IF \E i \in 1..Len(gs) : ToLowerCase(gs[i].name) = ToLowerCase(name)
  THEN <<ExactWarning(name)>>
  ELSE SimilarWarnings(gs, name, 1)

\* [...new Set(duplicates)]: the first occurrence of each warning
RECURSIVE Unique(_)
Unique(s) ==
  IF s = <<>> THEN <<>>
  ELSE LET front == Unique(SubSeq(s, 1, Len(s) - 1))
       IN IF Includes(front, s[Len(s)]) THEN front ELSE Append(front, s[Len(s)])

RECURSIVE AllWarnings(_, _)
AllWarnings(gs, newNames) ==
  IF newNames = <<>> THEN <<>>
  ELSE WarningsFor(gs, Head(newNames)) \o AllWarnings(gs, Tail(newNames))

CheckForDuplicates(gs, newNames) == Unique(AllWarnings(gs, newNames))

\* handlePasteImport: lines is the pasted text, each line a name and its "@N"
\* suffix; the names of the lines, trimmed
PastedNames(lines) == [k \in 1..Len(lines) |-> Trim(lines[k].name)]

PastedLines(lines, t, firstId) ==
  [k \in 1..Len(lines) |-> NewGuest(firstId + k - 1, Trim(lines[k].name),
                                    HintTable(lines[k].hint, t))]

\* proceed is the answer to confirm(), asked only when duplicates were found
PasteLines(lines, proceed) ==
  LET duplicates == CheckForDuplicates(guests, PastedNames(lines))
  IN /\ Len(lines) >= 1
     /\ \A k \in 1..Len(lines) : Trim(lines[k].name) # <<>>
     /\ uidCount + Len(lines) <= MaxUid
     /\ proceed \/ duplicates # <<>>
     /\ IF proceed
        THEN /\ uidCount' = uidCount + Len(lines)
             /\ duplicateWarning' = <<>>
             /\ Commit(tables, capacity, guests \o PastedLines(lines, tables, uidCount + 1),
                       canvasTables, Other)
        ELSE /\ lastOp' = Other
             /\ duplicateWarning' = duplicates
             /\ UNCHANGED <<tables, capacity, guests, canvasTables, uidCount, saved,
                            designerVars, weddingVars, cloudVars, eventVars>>

\* checkForDuplicates(names).length > 0
DuplicatesFound(gs) == CheckForDuplicates(gs, <<Trim(ImportedName)>>) # <<>>

\* a pasted list whose lines all carry ImportedName
PasteImport(hints, proceed) ==
  PasteLines([k \in 1..Len(hints) |-> [name |-> ImportedName, hint |-> hints[k]]], proceed)

\* ----------------------------------------------------------------------
\* Room canvas: tables
\* ----------------------------------------------------------------------
\* createTable (the name is `Table ${number}`)
CreateTable(id, ts, x, y, shape) ==
  [id |-> id, number |-> Len(ts) + 1, x |-> x, y |-> y,
   width |-> IF shape = "round" THEN 120 ELSE 140,
   height |-> IF shape = "round" THEN 120 ELSE 100,
   capacity |-> DefaultTableCapacity, shape |-> shape, rotation |-> 0,
   locked |-> FALSE, guests |-> <<>>]

AddTableToCanvas(p, shape) ==
  /\ uidCount < MaxUid
  /\ uidCount' = uidCount + 1
  /\ UNCHANGED duplicateWarning
  /\ Commit(tables, capacity, guests,
            Append(canvasTables, CreateTable(uidCount + 1, canvasTables, p[1], p[2], shape)),
            Other)

\* prev.tables.map(table => table.id === tableId ? { ...table, x, y } : table)
UpdateTablePosition(ts, tableId, x, y) ==
  [i \in 1..Len(ts) |-> IF ts[i].id = tableId THEN [ts[i] EXCEPT !.x = x, !.y = y] ELSE ts[i]]

\* prev.tables.map(table => table.id === tableId ? { ...table, capacity } : table)
UpdateTableCapacity(ts, tableId, c) ==
  [i \in 1..Len(ts) |-> IF ts[i].id = tableId THEN [ts[i] EXCEPT !.capacity = c] ELSE ts[i]]

\* prev.tables.map(table => table.id === tableId ? { ...table, locked: !table.locked } : table)
ToggleTableLock(ts, tableId) ==
  [i \in 1..Len(ts) |-> IF ts[i].id = tableId THEN [ts[i] EXCEPT !.locked = ~@] ELSE ts[i]]

\* Rnd onDragStop of a table
TableDragStop(i, p) ==
  /\ i \in 1..Len(canvasTables)
  /\ ~canvasTables[i].locked
  /\ UNCHANGED <<uidCount, duplicateWarning>>
  /\ Commit(tables, capacity, guests,
            UpdateTablePosition(canvasTables, canvasTables[i].id, p[1], p[2]),
            Other)

\* Math.floor((parseInt(ref.style.width) * parseInt(ref.style.height)) / 100)
ResizeCapacity(w, h) == (w * h) \div 100

\* Rnd onResizeStop of a table
TableResizeStop(i, dim, p) ==
  /\ i \in 1..Len(canvasTables)
  /\ ~canvasTables[i].locked
  /\ UNCHANGED <<uidCount, duplicateWarning>>
  /\ Commit(tables, capacity, guests,
            UpdateTablePosition(
              UpdateTableCapacity(canvasTables, canvasTables[i].id,
                                  ResizeCapacity(dim[1], dim[2])),
              canvasTables[i].id, p[1], p[2]),
            Other)

\* context menu, action 1: parseInt(newCapacity), kept when > 0
PromptCapacity(i, c) ==
  /\ i \in 1..Len(canvasTables)
  /\ UNCHANGED <<uidCount, duplicateWarning>>
  /\ IF c > 0
     THEN Commit(tables, capacity, guests,
                 UpdateTableCapacity(canvasTables, canvasTables[i].id, c),
                 Other)
     ELSE /\ lastOp' = Other
          /\ UNCHANGED <<tables, capacity, guests, canvasTables, saved,
                       designerVars, weddingVars, cloudVars, eventVars>>

\* context menu, action 2
ToggleLock(i) ==
  /\ i \in 1..Len(canvasTables)
  /\ UNCHANGED <<uidCount, duplicateWarning>>
  /\ Commit(tables, capacity, guests, ToggleTableLock(canvasTables, canvasTables[i].id),
            Other)

\* prev.tables.filter(t => t.id !== tableId)
RECURSIVE WithoutTable(_, _)
WithoutTable(ts, tableId) ==
  IF ts = <<>> THEN <<>>
  ELSE IF Head(ts).id = tableId THEN WithoutTable(Tail(ts), tableId)
       ELSE <<Head(ts)>> \o WithoutTable(Tail(ts), tableId)

\* prev.map(guest => table.guests.includes(guest.id) ? { ...guest, table: null } : guest)
ReleaseGuests(gs, members) ==
  [i \in 1..Len(gs) |-> IF Includes(members, gs[i].id) THEN [gs[i] EXCEPT !.table = NULL]
                         ELSE gs[i]]

\* removeTableFromCanvas: context menu action 3 (confirmed)
RemoveTableFromCanvas(tableId) ==
  LET k == FindTable(canvasTables, tableId)
  IN /\ UNCHANGED <<uidCount, duplicateWarning>>
     /\ Commit(tables, capacity,
               IF k # 0 THEN ReleaseGuests(guests, canvasTables[k].guests) ELSE guests,
               WithoutTable(canvasTables, tableId),
               Other)

\* prev.tables.map(t => ({ ...t, guests: t.guests.filter(g => g !== guestId) }))
RemoveFromTables(ts, guestId) ==
  [i \in 1..Len(ts) |-> [ts[i] EXCEPT !.guests = Without(@, guestId)]]

\* prev.tables.map(t => t.id === tableId ? { ...t, guests: [...t.guests, guestId] } : t)
AppendToTable(ts, tableId, guestId) ==
  [i \in 1..Len(ts) |-> IF ts[i].id = tableId THEN [ts[i] EXCEPT !.guests = Append(@, guestId)]
                         ELSE ts[i]]

\* a seating that leaves the guest in the array of the table it came from
SeatGuestKeepingOld(ts, guestId, tableId) == AppendToTable(ts, tableId, guestId)

\* the two setCanvasState updaters of addGuestToTable, applied in order
SeatGuest(ts, guestId, tableId) ==
  AppendToTable(RemoveFromTables(ts, guestId), tableId, guestId)

\* a seating whose setGuests update is lost
SeatedGuestsStale(gs, guestId, table) == gs

\* the setGuests updater of addGuestToTable
SeatedGuests(gs, guestId, table) == AssignTable(gs, guestId, table.number)

\* a capacity check that lets one guest too many in
TableFullOffByOne(table) == Len(table.guests) > table.capacity

\* table.guests.length >= table.capacity
TableFull(table) == Len(table.guests) >= table.capacity

\* the id of the table whose guest array holds guestId (NULL: none)
TableOf(ts, guestId) ==
  IF \E i \in 1..Len(ts) : Includes(ts[i].guests, guestId)
  THEN ts[CHOOSE i \in 1..Len(ts) : Includes(ts[i].guests, guestId)
                                    /\ \A j \in 1..(i - 1) : ~Includes(ts[j].guests, guestId)].id
  ELSE NULL

AddGuestToTable(guestId, tableId) ==
  LET k == FindTable(canvasTables, tableId)
  IN /\ UNCHANGED <<uidCount, duplicateWarning>>
     /\ IF k = 0
        THEN /\ lastOp' = Op("addGuestToTable", NULL, tableId, NULL, "none")
             /\ UNCHANGED <<tables, capacity, guests, canvasTables, saved,
                       designerVars, weddingVars, cloudVars, eventVars>>
        ELSE IF TableFull(canvasTables[k])
        THEN /\ lastOp' = Op("addGuestToTable", NULL, tableId, NULL, "full")
             /\ UNCHANGED <<tables, capacity, guests, canvasTables, saved,
                       designerVars, weddingVars, cloudVars, eventVars>>
        ELSE Commit(tables, capacity,
                    SeatedGuests(guests, guestId, canvasTables[k]),
                    SeatGuest(canvasTables, guestId, tableId),
                    Op("addGuestToTable", guestId, tableId,
                       TableOf(canvasTables, guestId), "seated"))

RemoveGuestFromTable(guestId) ==
  /\ UNCHANGED <<uidCount, duplicateWarning>>
  /\ Commit(tables, capacity, AssignTable(guests, guestId, NULL),
            RemoveFromTables(canvasTables, guestId),
            Other)

\* ----------------------------------------------------------------------
\* Specification
\* ----------------------------------------------------------------------
HintSeqs == UNION {[1..n -> TableInputs] : n \in BatchSizes}

Next ==
  \/ \E n \in NameInputs, t \in TableInputs : AddGuest(n, t)
  \/ \E i \in 1..Len(guests), v \in TableInputs : SelectTable(i, v)
  \/ \E i \in 1..Len(guests) : RemoveGuest(guests[i].id)
  \/ ClearAll
  \/ ResetAssignments
  \/ \E v \in NumberInputs : SetTables(v)
  \/ \E v \in NumberInputs : SetCapacity(v)
  \/ \E n \in BatchSizes : FileImport(n)
  \/ \E h \in HintSeqs, proceed \in BOOLEAN : PasteImport(h, proceed)
  \/ \E p \in AnchorPoints, sh \in AnchorShapes : AddTableToCanvas(p, sh)
  \/ \E i \in 1..Len(canvasTables), p \in AnchorPoints : TableDragStop(i, p)
  \/ \E i \in 1..Len(canvasTables), d \in ResizeDims, p \in AnchorPoints :
       TableResizeStop(i, d, p)
  \/ \E i \in 1..Len(canvasTables), c \in NumberInputs : PromptCapacity(i, c)
  \/ \E i \in 1..Len(canvasTables) : ToggleLock(i)
  \/ \E k \in 1..Len(canvasTables) : RemoveTableFromCanvas(canvasTables[k].id)
  \/ \E i \in 1..Len(guests), k \in 1..Len(canvasTables) :
       AddGuestToTable(guests[i].id, canvasTables[k].id)
  \/ \E i \in 1..Len(guests) : RemoveGuestFromTable(guests[i].id)

Spec == Init /\ [][Next]_vars

\* ----------------------------------------------------------------------
\* Room designer of page.tsx: grid, fixtures, selection, keyboard
\* ----------------------------------------------------------------------
\* Math.round(n / d) for d > 0: the nearest integer, halves going up
MathRound(n, d) == (2 * n + d) \div (2 * d)

\* a snap that forgets to scale the rounded quotient back to the grid
SnapQuotient(rs, value) ==
  IF ~rs.snapToGrid THEN value ELSE MathRound(value, rs.gridSize)

\* snapToGrid under the room settings rs
SnapToGrid(rs, value) ==
  IF ~rs.snapToGrid THEN value ELSE MathRound(value, rs.gridSize) * rs.gridSize

FixtureTypes == {"door", "window", "stage", "dance-floor", "dj-booth", "pillar", "text"}

\* createFixture: defaultSizes
DefaultSizes(type) ==
  CASE type = "door" -> [width |-> 40, height |-> 80]
    [] type = "window" -> [width |-> 60, height |-> 40]
    [] type = "stage" -> [width |-> 200, height |-> 120]
    [] type = "dance-floor" -> [width |-> 150, height |-> 150]
    [] type = "dj-booth" -> [width |-> 80, height |-> 60]
    [] type = "pillar" -> [width |-> 30, height |-> 30]
    [] type = "text" -> [width |-> 100, height |-> 40]

\* createFixture (label and color are left out)
CreateFixture(id, rs, type, x, y) ==
  [id |-> id, type |-> type, x |-> SnapToGrid(rs, x), y |-> SnapToGrid(rs, y),
   width |-> DefaultSizes(type).width, height |-> DefaultSizes(type).height,
   rotation |-> 0, locked |-> FALSE]

\* a designer step that leaves the tables and the guests alone; the object the
\* persist effect stores has the same guests and tables as before
FixtureFrame ==
  /\ lastOp' = Other
  /\ UNCHANGED <<tables, capacity, guests, canvasTables, saved, duplicateWarning,
                 weddingVars, cloudVars, eventVars>>

AddFixtureToCanvas(type, p) ==
  /\ uidCount < MaxUid
  /\ uidCount' = uidCount + 1
  /\ fixtures' = Append(fixtures, CreateFixture(uidCount + 1, roomSettings, type, p[1], p[2]))
  /\ UNCHANGED <<roomSettings, selectedItem>>
  /\ FixtureFrame

\* updateFixturePosition
UpdateFixturePosition(fs, rs, fixtureId, x, y) ==
  [i \in 1..Len(fs) |-> IF fs[i].id = fixtureId
                         THEN [fs[i] EXCEPT !.x = SnapToGrid(rs, x), !.y = SnapToGrid(rs, y)]
                         ELSE fs[i]]

\* updateFixtureSize
UpdateFixtureSize(fs, rs, fixtureId, width, height) ==
  [i \in 1..Len(fs) |-> IF fs[i].id = fixtureId
                         THEN [fs[i] EXCEPT !.width = SnapToGrid(rs, width),
                                            !.height = SnapToGrid(rs, height)]
                         ELSE fs[i]]

\* Rnd onDragStop of a fixture
FixtureDragStop(i, p) ==
  /\ i \in 1..Len(fixtures)
  /\ ~fixtures[i].locked
  /\ fixtures' = UpdateFixturePosition(fixtures, roomSettings, fixtures[i].id, p[1], p[2])
  /\ UNCHANGED <<uidCount, roomSettings, selectedItem>>
  /\ FixtureFrame

\* Rnd onResizeStop of a fixture
FixtureResizeStop(i, dim, p) ==
  /\ i \in 1..Len(fixtures)
  /\ ~fixtures[i].locked
  /\ fixtures' = UpdateFixturePosition(
                   UpdateFixtureSize(fixtures, roomSettings, fixtures[i].id, dim[1], dim[2]),
                   roomSettings, fixtures[i].id, p[1], p[2])
  /\ UNCHANGED <<uidCount, roomSettings, selectedItem>>
  /\ FixtureFrame

\* context menu of a fixture, action 1
ToggleFixtureLock(i) ==
  /\ i \in 1..Len(fixtures)
  /\ fixtures' = [fixtures EXCEPT ![i].locked = ~@]
  /\ UNCHANGED <<uidCount, roomSettings, selectedItem>>
  /\ FixtureFrame

\* context menu of a fixture, action 2 (confirmed)
RemoveFixtureFromCanvas(i) ==
  /\ i \in 1..Len(fixtures)
  /\ fixtures' = WithoutId(fixtures, fixtures[i].id)
  /\ UNCHANGED <<uidCount, roomSettings, selectedItem>>
  /\ FixtureFrame

\* "Room Settings" prompt: the grid size, kept when every number is truthy
SetGridSize(gridSize) ==
  /\ gridSize # 0
  /\ roomSettings' = [roomSettings EXCEPT !.gridSize = gridSize]
  /\ UNCHANGED <<uidCount, fixtures, selectedItem>>
  /\ FixtureFrame

\* "Snap: ON/OFF"
ToggleSnap ==
  /\ roomSettings' = [roomSettings EXCEPT !.snapToGrid = ~@]
  /\ UNCHANGED <<uidCount, fixtures, selectedItem>>
  /\ FixtureFrame

\* handleTableDragStart (defined in page.tsx, attached to no element)
HandleTableDragStart(i) ==
  /\ i \in 1..Len(canvasTables)
  /\ selectedItem' = <<[type |-> "table", id |-> canvasTables[i].id]>>
  /\ UNCHANGED <<uidCount, fixtures, roomSettings>>
  /\ FixtureFrame

\* handleTableDrag (attached to no element): updateTablePosition of the
\* selected table
HandleTableDrag(p) ==
  /\ selectedItem # <<>>
  /\ selectedItem[1].type = "table"
  /\ UNCHANGED <<uidCount, duplicateWarning>>
  /\ Commit(tables, capacity, guests,
            UpdateTablePosition(canvasTables, selectedItem[1].id, p[1], p[2]),
            Other)

\* handleTableDragEnd (attached to no element)
HandleTableDragEnd ==
  /\ selectedItem # <<>>
  /\ selectedItem' = <<>>
  /\ UNCHANGED <<uidCount, fixtures, roomSettings>>
  /\ FixtureFrame

ArrowKeys == {"ArrowUp", "ArrowDown", "ArrowLeft", "ArrowRight"}

\* the position an arrow key moves (x, y) to
ArrowTarget(key, moveAmount, x, y) ==
  CASE key = "ArrowUp" -> <<x, y - moveAmount>>
    [] key = "ArrowDown" -> <<x, y + moveAmount>>
    [] key = "ArrowLeft" -> <<x - moveAmount, y>>
    [] key = "ArrowRight" -> <<x + moveAmount, y>>

\* handleKeyboardNavigation with a table selected
KeyOnTable(key, shiftKey) ==
  LET k == FindTable(canvasTables, selectedItem[1].id)
      moveAmount == IF shiftKey THEN 10 ELSE 1
  IN IF k = 0 \/ canvasTables[k].locked
     THEN UNCHANGED vars
     ELSE IF key \in ArrowKeys
     THEN LET to == ArrowTarget(key, moveAmount, canvasTables[k].x, canvasTables[k].y)
          IN /\ to[1] \in KeyWindow /\ to[2] \in KeyWindow
             /\ UNCHANGED <<uidCount, duplicateWarning>>
             /\ Commit(tables, capacity, guests,
                       UpdateTablePosition(canvasTables, selectedItem[1].id, to[1], to[2]),
                       Other)
     ELSE /\ tables' = tables
          /\ capacity' = capacity
          /\ guests' = ReleaseGuests(guests, canvasTables[k].guests)
          /\ canvasTables' = WithoutTable(canvasTables, selectedItem[1].id)
          /\ saved' = Snapshot(tables', capacity', guests', canvasTables')
          /\ lastOp' = Other
          /\ selectedItem' = <<>>
          /\ UNCHANGED <<uidCount, duplicateWarning, fixtures, roomSettings,
                         weddingVars, cloudVars, eventVars>>

\* handleKeyboardNavigation with a fixture selected
KeyOnFixture(key, shiftKey) ==
  LET moveAmount == IF shiftKey THEN 10 ELSE 1
  IN IF \A i \in 1..Len(fixtures) :
          fixtures[i].id = selectedItem[1].id => fixtures[i].locked
     THEN UNCHANGED vars
     ELSE LET i == CHOOSE i \in 1..Len(fixtures) : fixtures[i].id = selectedItem[1].id
          IN /\ IF key \in ArrowKeys
                THEN LET to == ArrowTarget(key, moveAmount, fixtures[i].x, fixtures[i].y)
                     IN /\ to[1] \in KeyWindow /\ to[2] \in KeyWindow
                        /\ fixtures' = UpdateFixturePosition(fixtures, roomSettings,
                                                             fixtures[i].id, to[1], to[2])
                        /\ UNCHANGED selectedItem
                ELSE /\ fixtures' = WithoutId(fixtures, fixtures[i].id)
                     /\ selectedItem' = <<>>
             /\ UNCHANGED <<uidCount, roomSettings>>
             /\ FixtureFrame

\* handleKeyboardNavigation: the arrow keys and Delete
HandleKeyboardNavigation(key, shiftKey) ==
  IF selectedItem = <<>>
  THEN UNCHANGED vars
  ELSE IF selectedItem[1].type = "table"
  THEN KeyOnTable(key, shiftKey)
  ELSE KeyOnFixture(key, shiftKey)

\* the positions and sizes the designer's gestures deliver here
DragPoints == {<<100, 100>>, <<105, 47>>}
FixturePoints == {<<100, 100>>, <<23, 47>>}
FixtureDims == {<<40, 80>>, <<45, 80>>}
GridInputs == {0, 10, 20}                \* parseInt of the prompt's third number
PlacedFixtures == {"door", "stage"}      \* the fixture select's value
Keys == ArrowKeys \cup {"Delete"}

\* the room designer's table gestures, its selection and its grid settings
LayoutNext ==
  \/ \E p \in AnchorPoints, sh \in AnchorShapes :
       Len(canvasTables) < MaxLayoutTables /\ AddTableToCanvas(p, sh)
  \/ \E i \in 1..Len(canvasTables), p \in DragPoints : TableDragStop(i, p)
  \/ \E i \in 1..Len(canvasTables), d \in ResizeDims, p \in DragPoints :
       TableResizeStop(i, d, p)
  \/ \E i \in 1..Len(canvasTables) : ToggleLock(i)
  \/ \E i \in 1..Len(canvasTables) : HandleTableDragStart(i)
  \/ \E p \in DragPoints : HandleTableDrag(p)
  \/ HandleTableDragEnd
  \/ \E key \in Keys, shiftKey \in BOOLEAN : HandleKeyboardNavigation(key, shiftKey)
  \/ \E g \in GridInputs : SetGridSize(g)
  \/ ToggleSnap

LayoutSpec == Init /\ [][LayoutNext]_vars

\* the grid settings snapToGrid is exercised under: the room as loaded from a
\* saved plan, with any grid size of 1..MaxGridSize and the snap on or off
SnapInit ==
  /\ tables = DefaultTables
  /\ capacity = DefaultCapacity
  /\ guests = <<>>
  /\ canvasTables = <<>>
  /\ uidCount = 0
  /\ saved = Snapshot(DefaultTables, DefaultCapacity, <<>>, <<>>)
  /\ lastOp = Op("mount", NULL, NULL, NULL, "none")
  /\ duplicateWarning = <<>>
  /\ fixtures = <<>>
  /\ roomSettings \in [gridSize : 1..MaxGridSize, snapToGrid : BOOLEAN]
  /\ selectedItem = <<>>
  /\ wlTables = <<>>
  /\ wlFixtures = <<>>
  /\ wlRoomSettings = WeddingRoomSettings
  /\ wlSelectedItem = <<>>
  /\ wlClock = 0
  /\ wlLayoutType = "reception"
  /\ wlStored = Upsert(NoLayouts, "reception", DefaultLayout)
  /\ wlPending = {LoadRequest("reception", DefaultLayout)}
  /\ wlLatent = FALSE
  /\ cloudGuests = <<>>
  /\ cloudTables = <<>>
  /\ editingGuest = <<>>
  /\ formData = EmptyForm
  /\ kitchen = <<>>
  /\ currentEventId = NULL
  /\ cloudGroups = <<>>
  /\ managerGroups = <<>>
  /\ selectedGroupId = NULL
  /\ storedGuests = <<>>
  /\ storedGroups = <<>>
  /\ cloudPending = {}

\* the fixture gestures, each of which stores what snapToGrid returns
SnapNext ==
  \/ \E type \in PlacedFixtures, p \in FixturePoints :
       Len(fixtures) < MaxSnapFixtures /\ AddFixtureToCanvas(type, p)
  \/ \E i \in 1..Len(fixtures), p \in FixturePoints : FixtureDragStop(i, p)
  \/ \E i \in 1..Len(fixtures), d \in FixtureDims, p \in FixturePoints :
       FixtureResizeStop(i, d, p)
  \/ \E i \in 1..Len(fixtures) : ToggleFixtureLock(i)
  \/ \E i \in 1..Len(fixtures) : RemoveFixtureFromCanvas(i)
  \/ \E g \in GridInputs : SetGridSize(g)
  \/ ToggleSnap

SnapSpec == SnapInit /\ [][SnapNext]_vars

\* ----------------------------------------------------------------------
\* WeddingLayout (src/components/WeddingLayout.tsx)
\* ----------------------------------------------------------------------
\* TABLE_PRESETS: 'Round 60"' and 'Rect 8ft'
TablePresets ==
  { [shape |-> "round", width |-> 120, height |-> 120, capacity |-> 8],
    [shape |-> "rect", width |-> 240, height |-> 120, capacity |-> 10] }

\* WEDDING_FIXTURES: two of the types of the fixture select
WeddingFixtures == {"door", "bar"}

WlGridInputs == {20, 30}                 \* parseInt of the "Grid Size" input
WlDragPoints == {<<100, 100>>, <<23, 47>>}
WlResizeDims == {<<130, 80>>}

\* snapToGrid of WeddingLayout, under its own room settings
WlSnapToGrid(value) == SnapToGrid(wlRoomSettings, value)

\* saveLayout with the layout type and the state of its closure, pending being
\* the other requests in flight: the upsert lands at once, or travels
SaveLayout(pending, type, snap) ==
  IF wlLatent
  THEN /\ wlPending' = pending \cup {SaveRequest(type, snap)}
       /\ UNCHANGED wlStored
  ELSE /\ wlStored' = Upsert(wlStored, type, snap)
       /\ wlPending' = pending

\* a gesture that selects: no state the save effect depends on changes
WlIdle ==
  UNCHANGED <<listVars, designerVars, cloudVars, eventVars, wlLayoutType, wlStored, wlPending, wlLatent>>

\* the save effect after tables, fixtures or roomSettings were set: saveLayout
\* of the new state; the rest of the application is a different page
WlFrame ==
  /\ UNCHANGED <<listVars, designerVars, cloudVars, eventVars, wlLayoutType, wlLatent>>
  /\ SaveLayout(wlPending, wlLayoutType,
                LayoutSnapshot(wlRoomSettings', wlTables', wlFixtures'))

\* addTable(preset); Date.now() reads a clock that has advanced
WlAddTable(preset) ==
  /\ wlClock < MaxWeddingClock
  /\ wlClock' = wlClock + 1
  /\ wlTables' = Append(wlTables,
       [id |-> wlClock + 1, number |-> Len(wlTables) + 1, x |-> 100, y |-> 100,
        width |-> preset.width, height |-> preset.height, capacity |-> preset.capacity,
        shape |-> preset.shape, rotation |-> 0, locked |-> FALSE])
  /\ UNCHANGED <<wlFixtures, wlRoomSettings, wlSelectedItem>>
  /\ WlFrame

\* addFixture(fixtureType)
WlAddFixture(fixtureType) ==
  /\ wlClock < MaxWeddingClock
  /\ wlClock' = wlClock + 1
  /\ wlFixtures' = Append(wlFixtures,
       [id |-> wlClock + 1, type |-> fixtureType, x |-> 100, y |-> 100,
        width |-> 120, height |-> 80, rotation |-> 0, locked |-> FALSE])
  /\ UNCHANGED <<wlTables, wlRoomSettings, wlSelectedItem>>
  /\ WlFrame

\* updateTablePosition / updateFixturePosition of WeddingLayout
WlUpdatePosition(items, id, x, y) ==
  [i \in 1..Len(items) |-> IF items[i].id = id
                            THEN [items[i] EXCEPT !.x = x, !.y = y]
                            ELSE items[i]]

\* updateTableSize / updateFixtureSize of WeddingLayout
WlUpdateSize(items, id, width, height) ==
  [i \in 1..Len(items) |-> IF items[i].id = id
                            THEN [items[i] EXCEPT !.width = width, !.height = height]
                            ELSE items[i]]

\* Rnd onDragStop of a table
WlTableDragStop(i, p) ==
  /\ i \in 1..Len(wlTables)
  /\ wlTables' = WlUpdatePosition(wlTables, wlTables[i].id,
                                  WlSnapToGrid(p[1]), WlSnapToGrid(p[2]))
  /\ UNCHANGED <<wlFixtures, wlRoomSettings, wlSelectedItem, wlClock>>
  /\ WlFrame

\* Rnd onResizeStop of a table
WlTableResizeStop(i, dim, p) ==
  /\ i \in 1..Len(wlTables)
  /\ wlTables' = WlUpdateSize(
                   WlUpdatePosition(wlTables, wlTables[i].id,
                                    WlSnapToGrid(p[1]), WlSnapToGrid(p[2])),
                   wlTables[i].id, WlSnapToGrid(dim[1]), WlSnapToGrid(dim[2]))
  /\ UNCHANGED <<wlFixtures, wlRoomSettings, wlSelectedItem, wlClock>>
  /\ WlFrame

\* Rnd onDragStop of a fixture
WlFixtureDragStop(i, p) ==
  /\ i \in 1..Len(wlFixtures)
  /\ wlFixtures' = WlUpdatePosition(wlFixtures, wlFixtures[i].id,
                                    WlSnapToGrid(p[1]), WlSnapToGrid(p[2]))
  /\ UNCHANGED <<wlTables, wlRoomSettings, wlSelectedItem, wlClock>>
  /\ WlFrame

\* Rnd onResizeStop of a fixture
WlFixtureResizeStop(i, dim, p) ==
  /\ i \in 1..Len(wlFixtures)
  /\ wlFixtures' = WlUpdateSize(
                     WlUpdatePosition(wlFixtures, wlFixtures[i].id,
                                      WlSnapToGrid(p[1]), WlSnapToGrid(p[2])),
                     wlFixtures[i].id, WlSnapToGrid(dim[1]), WlSnapToGrid(dim[2]))
  /\ UNCHANGED <<wlTables, wlRoomSettings, wlSelectedItem, wlClock>>
  /\ WlFrame

\* onClick of a table or of a fixture
WlSelect(type, id) ==
  /\ wlSelectedItem' = <<[type |-> type, id |-> id]>>
  /\ UNCHANGED <<wlTables, wlFixtures, wlRoomSettings, wlClock>>
  /\ WlIdle

\* "Delete Selected": deleteItem(selectedItem.type, selectedItem.id)
WlDeleteSelected ==
  /\ wlSelectedItem # <<>>
  /\ IF wlSelectedItem[1].type = "table"
     THEN /\ wlTables' = WithoutId(wlTables, wlSelectedItem[1].id)
          /\ UNCHANGED wlFixtures
     ELSE /\ wlFixtures' = WithoutId(wlFixtures, wlSelectedItem[1].id)
          /\ UNCHANGED wlTables
  /\ wlSelectedItem' = <<>>
  /\ UNCHANGED <<wlRoomSettings, wlClock>>
  /\ WlFrame

\* the "Grid Size" input of the settings panel
WlSetGridSize(gridSize) ==
  /\ wlRoomSettings' = [wlRoomSettings EXCEPT !.gridSize = gridSize]
  /\ UNCHANGED <<wlTables, wlFixtures, wlSelectedItem, wlClock>>
  /\ WlFrame

\* the "Snap to Grid" checkbox
WlSetSnap(checked) ==
  /\ wlRoomSettings' = [wlRoomSettings EXCEPT !.snapToGrid = checked]
  /\ UNCHANGED <<wlTables, wlFixtures, wlSelectedItem, wlClock>>
  /\ WlFrame

WeddingNext ==
  \/ \E preset \in TablePresets : WlAddTable(preset)
  \/ \E type \in WeddingFixtures : WlAddFixture(type)
  \/ \E i \in 1..Len(wlTables), p \in WlDragPoints : WlTableDragStop(i, p)
  \/ \E i \in 1..Len(wlTables), d \in WlResizeDims, p \in WlDragPoints :
       WlTableResizeStop(i, d, p)
  \/ \E i \in 1..Len(wlFixtures), p \in WlDragPoints : WlFixtureDragStop(i, p)
  \/ \E i \in 1..Len(wlFixtures), d \in WlResizeDims, p \in WlDragPoints :
       WlFixtureResizeStop(i, d, p)
  \/ \E i \in 1..Len(wlTables) : WlSelect("table", wlTables[i].id)
  \/ \E i \in 1..Len(wlFixtures) : WlSelect("fixture", wlFixtures[i].id)
  \/ WlDeleteSelected
  \/ \E g \in WlGridInputs : WlSetGridSize(g)
  \/ \E b \in BOOLEAN : WlSetSnap(b)

WeddingSpec == Init /\ [][WeddingNext]_vars

\* ----------------------------------------------------------------------
\* WeddingLayout and the layouts table
\* ----------------------------------------------------------------------
\* a reception layout saved by an earlier session: one 'Round 60"' table
EarlierLayout ==
  LayoutSnapshot(WeddingRoomSettings,
                 <<[id |-> 0, number |-> 1, x |-> 100, y |-> 100, width |-> 120,
                    height |-> 120, capacity |-> 8, shape |-> "round", rotation |-> 0,
                    locked |-> FALSE]>>,
                 <<>>)

\* what the layouts table can hold when the component mounts
StoredLayouts == {NoLayouts, Upsert(NoLayouts, "reception", EarlierLayout)}

\* WeddingLayout just mounted: loadLayout and the save effect have both sent
\* their request
PersistInit ==
  /\ tables = DefaultTables
  /\ capacity = DefaultCapacity
  /\ guests = <<>>
  /\ canvasTables = <<>>
  /\ uidCount = 0
  /\ saved = Snapshot(DefaultTables, DefaultCapacity, <<>>, <<>>)
  /\ lastOp = Op("mount", NULL, NULL, NULL, "none")
  /\ duplicateWarning = <<>>
  /\ fixtures = <<>>
  /\ roomSettings = DefaultRoomSettings
  /\ selectedItem = <<>>
  /\ wlTables = <<>>
  /\ wlFixtures = <<>>
  /\ wlRoomSettings = WeddingRoomSettings
  /\ wlSelectedItem = <<>>
  /\ wlClock = 0
  /\ wlLayoutType = "reception"
  /\ wlStored \in StoredLayouts
  /\ wlPending = {LoadRequest("reception", DefaultLayout),
                   SaveRequest("reception", DefaultLayout)}
  /\ wlLatent = TRUE
  /\ cloudGuests = <<>>
  /\ cloudTables = <<>>
  /\ editingGuest = <<>>
  /\ formData = EmptyForm
  /\ kitchen = <<>>
  /\ currentEventId = NULL
  /\ cloudGroups = <<>>
  /\ managerGroups = <<>>
  /\ selectedGroupId = NULL
  /\ storedGuests = <<>>
  /\ storedGroups = <<>>
  /\ cloudPending = {}

\* setCurrentLayoutType(type) of the signed-in page, then the load effect
SwitchLayoutType(type) ==
  /\ type # wlLayoutType
  /\ wlLayoutType' = type
  /\ wlPending' = wlPending \cup
       {LoadRequest(type, LayoutSnapshot(wlRoomSettings, wlTables, wlFixtures))}
  /\ UNCHANGED <<wlTables, wlFixtures, wlRoomSettings, wlSelectedItem, wlClock,
                 wlStored, wlLatent, listVars, designerVars, cloudVars, eventVars>>

\* the select of loadLayout returns: with a row, the three setters and then
\* the save effect; without one, saveLayout of the closure the load left with
LoadCompletes(req) ==
  /\ req \in wlPending
  /\ req.kind = "load"
  /\ IF wlStored[req.type] # <<>>
     THEN /\ wlTables' = wlStored[req.type][1].tables
          /\ wlFixtures' = wlStored[req.type][1].fixtures
          /\ wlRoomSettings' = wlStored[req.type][1].room
          /\ SaveLayout(wlPending \ {req}, wlLayoutType,
                        LayoutSnapshot(wlRoomSettings', wlTables', wlFixtures'))
     ELSE /\ UNCHANGED <<wlTables, wlFixtures, wlRoomSettings>>
          /\ SaveLayout(wlPending \ {req}, req.type, req.snap)
  /\ UNCHANGED <<wlSelectedItem, wlClock, wlLayoutType, wlLatent,
                 listVars, designerVars, cloudVars, eventVars>>

\* the upsert of saveLayout reaches the layouts table
SaveCompletes(req) ==
  /\ req \in wlPending
  /\ req.kind = "save"
  /\ wlStored' = Upsert(wlStored, req.type, req.snap)
  /\ wlPending' = wlPending \ {req}
  /\ UNCHANGED <<wlTables, wlFixtures, wlRoomSettings, wlSelectedItem, wlClock,
                 wlLayoutType, wlLatent, listVars, designerVars, cloudVars, eventVars>>

\* gestures are followed while fewer than MaxInFlight requests are in flight
PersistNext ==
  \/ \E preset \in TablePresets :
       Cardinality(wlPending) < MaxInFlight /\ WlAddTable(preset)
  \/ \E type \in LayoutTypes :
       Cardinality(wlPending) < MaxInFlight /\ SwitchLayoutType(type)
  \/ \E req \in wlPending : LoadCompletes(req)
  \/ \E req \in wlPending : SaveCompletes(req)

PersistSpec == PersistInit /\ [][PersistNext]_vars

\* ----------------------------------------------------------------------
\* Signed-in page (src/app/(authed)/page.tsx) and GuestEditor
\* ----------------------------------------------------------------------
\* ----------------------------------------------------------------------
\* KitchenSummary (src/unnamed/part_001)
\* ----------------------------------------------------------------------
Range(f) == {f[x] : x \in DOMAIN f}

\* meal_selection: null; the select's '' is stored as null and both are falsy
NoMeal == ""

\* counts[key] = (counts[key] || 0), without the increment
Touch(counts, key) ==
  IF key \in DOMAIN counts THEN counts ELSE counts @@ (key :> 1)

\* counts[key] = (counts[key] || 0) + 1
Bump(counts, key) ==
  IF key \in DOMAIN counts THEN [counts EXCEPT ![key] = @ + 1] ELSE counts @@ (key :> 1)

RECURSIVE BumpEach(_, _, _)
\* dietary_restrictions.forEach(dietary => counts[dietary] = ... + 1), from k on
BumpEach(counts, ds, k) ==
  IF k > Len(ds) THEN counts ELSE BumpEach(Bump(counts, ds[k]), ds, k + 1)

RECURSIVE MealCountsFrom(_, _, _)
MealCountsFrom(gs, k, counts) ==
  IF k > Len(gs) THEN counts
  ELSE MealCountsFrom(gs, k + 1,
         IF gs[k].meal_selection # NoMeal THEN Bump(counts, gs[k].meal_selection)
         ELSE counts)

\* the mealCounts memo
MealCounts(gs) == MealCountsFrom(gs, 1, <<>>)

RECURSIVE DietaryCountsFrom(_, _, _)
DietaryCountsFrom(gs, k, counts) ==
  IF k > Len(gs) THEN counts
  ELSE DietaryCountsFrom(gs, k + 1, BumpEach(counts, gs[k].dietary_restrictions, 1))

\* the dietaryCounts memo
DietaryCounts(gs) == DietaryCountsFrom(gs, 1, <<>>)

RECURSIVE PushEach(_, _, _)
\* a per-table list that keeps only what the guest handled last lists
ReplaceEach(dietary, ds, k) == ds

\* forEach(dietary => if (!includes(dietary)) push(dietary)), from k on
PushEach(dietary, ds, k) ==
  IF k > Len(ds) THEN dietary
  ELSE PushEach(IF \E i \in 1..Len(dietary) : dietary[i] = ds[k]
                THEN dietary ELSE Append(dietary, ds[k]),
                ds, k + 1)

\* tables.forEach(table => tableData[table.number] = { meals: {}, dietary: [] })
EmptyTableData(ts) ==
  [n \in {ts[i].number : i \in 1..Len(ts)} |-> [meals |-> <<>>, dietary |-> <<>>]]

\* the body of guests.forEach in the tableMeals memo
TableDataWith(tableData, guest) ==
  IF guest.table_num # NULL /\ guest.table_num \in DOMAIN tableData
  THEN [tableData EXCEPT ![guest.table_num] =
          [meals |-> IF guest.meal_selection # NoMeal
                     THEN Bump(@.meals, guest.meal_selection) ELSE @.meals,
           dietary |-> PushEach(@.dietary, guest.dietary_restrictions, 1)]]
  ELSE tableData

RECURSIVE TableMealsFrom(_, _, _)
TableMealsFrom(gs, k, tableData) ==
  IF k > Len(gs) THEN tableData
  ELSE TableMealsFrom(gs, k + 1, TableDataWith(tableData, gs[k]))

\* the tableMeals memo
TableMeals(gs, ts) == TableMealsFrom(gs, 1, EmptyTableData(ts))

RECURSIVE SumOver(_, _)
\* the sum of the counts of the meals in keys
SumOver(meals, keys) ==
  IF keys = {} THEN 0
  ELSE LET key == CHOOSE m \in keys : TRUE
       IN meals[key] + SumOver(meals, keys \ {key})

\* Per-Table Breakdown: mealEntries.reduce((sum, [_, count]) => sum + count, 0),
\* the number shown before '/capacity guests'
BreakdownGuests(data) == SumOver(data.meals, DOMAIN data.meals)

\* guests.filter(g => g.table_num !== null).length
AssignedGuests(gs) == Cardinality({i \in 1..Len(gs) : gs[i].table_num # NULL})

\* everything KitchenSummary computes of its props
Aggregates(gs, ts) ==
  [mealCounts |-> MealCounts(gs),
   dietaryCounts |-> DietaryCounts(gs),
   tableMeals |-> TableMeals(gs, ts),
   totalGuests |-> Len(gs),
   assignedGuests |-> AssignedGuests(gs),
   unassignedGuests |-> Len(gs) - AssignedGuests(gs)]

\* the summary after the props become (gs, ts): recomputed while it is mounted
Rendered(shown, gs, ts) == IF shown = <<>> THEN <<>> ELSE <<Aggregates(gs, ts)>>

\* a row of the guests table, with the fields the table assignment and the
\* kitchen summary read
CloudGuest(id, name, table_num) ==
  [id |-> id, name |-> name, table_num |-> table_num,
   meal_selection |-> NoMeal, dietary_restrictions |-> <<>>, group_id |-> NULL]

\* "Add Guest": setEditingGuest({} as Guest), an object without id
BlankGuest == CloudGuest(NULL, <<>>, NULL)

\* what loadGuests and loadTables can return for the selected event
CloudRows ==
  { <<>>,
    <<CloudGuest(1, <<"a">>, 1), CloudGuest(2, <<"a">>, 1)>> }
CloudLayouts ==
  { <<[number |-> 1, capacity |-> 2]>>,
    <<[number |-> 1, capacity |-> 2], [number |-> 2, capacity |-> 8]>> }
FormTableInputs == {NULL, 1, 2, 3}     \* parseInt(e.target.value), "" giving null

\* useEffect of GuestEditor: setFormData(guest)
FormOf(guest) == [name |-> guest.name, table_num |-> guest.table_num]

\* an event without groups is picked, its guests being rows and its reception
\* tables layout: handleEventChange, then the effect's loads, all returned
SelectEvent(rows, layout) ==
  /\ cloudGuests' = rows
  /\ cloudTables' = layout
  /\ editingGuest' = <<>>
  /\ formData' = EmptyForm
  /\ kitchen' = Rendered(kitchen, rows, layout)
  /\ currentEventId' = 1
  /\ selectedGroupId' = NULL
  /\ storedGuests' = rows
  /\ cloudGroups' = <<>>
  /\ managerGroups' = <<>>
  /\ storedGroups' = <<>>
  /\ UNCHANGED <<cloudPending, listVars, designerVars, weddingVars>>

OpenBlankGuest ==
  /\ editingGuest = <<>>
  /\ editingGuest' = <<BlankGuest>>
  /\ formData' = FormOf(BlankGuest)
  /\ UNCHANGED <<cloudGuests, cloudTables, kitchen, listVars, designerVars, weddingVars, eventVars>>

\* "Edit" of a guest row
OpenGuest(i) ==
  /\ editingGuest = <<>>
  /\ i \in 1..Len(cloudGuests)
  /\ editingGuest' = <<cloudGuests[i]>>
  /\ formData' = FormOf(cloudGuests[i])
  /\ UNCHANGED <<cloudGuests, cloudTables, kitchen, listVars, designerVars, weddingVars, eventVars>>

SetFormName(name) ==
  /\ editingGuest # <<>>
  /\ formData' = [formData EXCEPT !.name = name]
  /\ UNCHANGED <<cloudGuests, cloudTables, editingGuest, kitchen, listVars, designerVars, weddingVars, eventVars>>

\* the Table Number input
SetFormTable(v) ==
  /\ editingGuest # <<>>
  /\ formData' = [formData EXCEPT !.table_num = v]
  /\ UNCHANGED <<cloudGuests, cloudTables, editingGuest, kitchen, listVars, designerVars, weddingVars, eventVars>>

\* onSave({ ...guest, ...formData })
MergedGuest(guest, form) ==
  [guest EXCEPT !.name = form.name, !.table_num = form.table_num]

\* from('guests').update(formData).eq('id', id): no row has the id of an
\* object without id
UpdateGuestRow(rows, id, form) ==
  [i \in 1..Len(rows) |-> IF rows[i].id = id THEN MergedGuest(rows[i], form) ELSE rows[i]]

\* handleGuestSave: the updater of setGuests
HandleGuestSave(gs, guest) ==
  IF \E i \in 1..Len(gs) : gs[i].id = guest.id
  THEN LET existingIndex == CHOOSE i \in 1..Len(gs) :
                              gs[i].id = guest.id /\ \A j \in 1..(i - 1) : gs[j].id # guest.id
       IN [gs EXCEPT ![existingIndex] = guest]
  ELSE Append(gs, guest)

\* GuestEditor.handleSave; stored tells whether the update of the guests table
\* returned without error
HandleSave(stored) ==
  /\ editingGuest # <<>>
  /\ IF Trim(formData.name) = <<>> \/ ~stored
     THEN UNCHANGED vars
     ELSE /\ cloudGuests' = HandleGuestSave(cloudGuests, MergedGuest(editingGuest[1], formData))
          /\ editingGuest' = <<>>
          /\ formData' = EmptyForm
          /\ kitchen' = Rendered(kitchen, cloudGuests', cloudTables)
          /\ storedGuests' = UpdateGuestRow(storedGuests, editingGuest[1].id, formData)
          /\ UNCHANGED <<cloudTables, currentEventId, cloudGroups, managerGroups,
                         selectedGroupId, storedGroups, cloudPending,
                         listVars, designerVars, weddingVars>>

\* onCancel
CancelEdit ==
  /\ editingGuest # <<>>
  /\ editingGuest' = <<>>
  /\ formData' = EmptyForm
  /\ UNCHANGED <<cloudGuests, cloudTables, kitchen, listVars, designerVars, weddingVars, eventVars>>

CloudNext ==
  \/ \E rows \in CloudRows, layout \in CloudLayouts : SelectEvent(rows, layout)
  \/ OpenBlankGuest
  \/ \E i \in 1..Len(cloudGuests) : OpenGuest(i)
  \/ \E n \in NameInputs : SetFormName(n)
  \/ \E v \in FormTableInputs : SetFormTable(v)
  \/ \E stored \in BOOLEAN : HandleSave(stored)
  \/ CancelEdit

CloudSpec == Init /\ [][CloudNext]_vars

\* ----------------------------------------------------------------------
\* The kitchen tab of the signed-in page
\* ----------------------------------------------------------------------
KitchenMeals == {NoMeal, "Chicken", "Fish"}          \* MEAL_OPTIONS, or none
KitchenDietary == {<<>>, <<"GF">>, <<"DF", "GF">>}   \* as toggleDietary builds them
KitchenTableNums == {NULL, 1, 2}

\* the guest lists of n guests an event can have: one id each, in any order
KitchenRows(n) ==
  { s \in [1..n -> [id : 1..n, name : {<<"a">>}, table_num : KitchenTableNums,
                    meal_selection : KitchenMeals,
                    dietary_restrictions : KitchenDietary, group_id : {NULL}]] :
      \A i, j \in 1..n : i # j => s[i].id # s[j].id }

KitchenGuestLists == UNION {KitchenRows(n) : n \in 0..MaxKitchenGuests}

\* the signed-in page with an event selected and its guests and tables loaded
KitchenInit ==
  /\ tables = DefaultTables
  /\ capacity = DefaultCapacity
  /\ guests = <<>>
  /\ canvasTables = <<>>
  /\ uidCount = 0
  /\ saved = Snapshot(DefaultTables, DefaultCapacity, <<>>, <<>>)
  /\ lastOp = Op("mount", NULL, NULL, NULL, "none")
  /\ duplicateWarning = <<>>
  /\ fixtures = <<>>
  /\ roomSettings = DefaultRoomSettings
  /\ selectedItem = <<>>
  /\ wlTables = <<>>
  /\ wlFixtures = <<>>
  /\ wlRoomSettings = WeddingRoomSettings
  /\ wlSelectedItem = <<>>
  /\ wlClock = 0
  /\ wlLayoutType = "reception"
  /\ wlStored = Upsert(NoLayouts, "reception", DefaultLayout)
  /\ wlPending = {LoadRequest("reception", DefaultLayout)}
  /\ wlLatent = FALSE
  /\ cloudGuests \in KitchenGuestLists
  /\ cloudTables \in CloudLayouts
  /\ editingGuest = <<>>
  /\ formData = EmptyForm
  /\ kitchen = <<>>
  /\ currentEventId = 1
  /\ cloudGroups = <<>>
  /\ managerGroups = <<>>
  /\ selectedGroupId = NULL
  /\ storedGuests = cloudGuests
  /\ storedGroups = <<>>
  /\ cloudPending = {}

\* the list gs in the order f
Permuted(gs, f) == [i \in 1..Len(gs) |-> gs[f[i]]]

\* setActiveTab('kitchen'): KitchenSummary mounts and computes its memos
ShowKitchenTab ==
  /\ kitchen = <<>>
  /\ kitchen' = <<Aggregates(cloudGuests, cloudTables)>>
  /\ UNCHANGED <<cloudGuests, cloudTables, editingGuest, formData,
                 listVars, designerVars, weddingVars, eventVars>>

\* setActiveTab('guests') or setActiveTab('layout'): KitchenSummary unmounts
LeaveKitchenTab ==
  /\ kitchen # <<>>
  /\ kitchen' = <<>>
  /\ UNCHANGED <<cloudGuests, cloudTables, editingGuest, formData,
                 listVars, designerVars, weddingVars, eventVars>>

\* loadGuests again: the rows ordered by name, which all guests here share, so
\* in the order f the database happens to return them in
ReloadGuests(f) ==
  /\ cloudGuests' = Permuted(cloudGuests, f)
  /\ kitchen' = Rendered(kitchen, cloudGuests', cloudTables)
  /\ UNCHANGED <<cloudTables, editingGuest, formData, listVars, designerVars, weddingVars, eventVars>>

KitchenNext ==
  \/ ShowKitchenTab
  \/ LeaveKitchenTab
  \/ \E f \in Permutations(1..Len(cloudGuests)) : ReloadGuests(f)

KitchenSpec == KitchenInit /\ [][KitchenNext]_vars

\* ----------------------------------------------------------------------
\* Pasting names into an existing roster
\* ----------------------------------------------------------------------
JonSmith == <<"J", "o", "n", " ", "S", "m", "i", "t", "h">>
JonSmithLower == <<"j", "o", "n", " ", "s", "m", "i", "t", "h">>
JonSmyth == <<"J", "o", "n", " ", "S", "m", "y", "t", "h">>
MariaLopez == <<"M", "a", "r", "i", "a", " ", "L", "o", "p", "e", "z">>
Abcde == <<"a", "b", "c", "d", "e">>
Abcdx == <<"a", "b", "c", "d", "x">>
JonSmeth == <<"J", "o", "n", " ", "S", "m", "e", "t", "h">>

RosterNames == {JonSmith, Abcde}                            \* names already saved
CandidateNames == {JonSmithLower, JonSmyth, JonSmeth, MariaLopez, Abcdx}   \* names pasted

\* the guest lists of a saved plan: every guest unassigned, ids as handed out
Rosters ==
  UNION { {[k \in 1..n |-> NewGuest(k, names[k], NULL)] : names \in [1..n -> RosterNames]} :
          n \in 0..MaxRoster }

\* the page after its load effect has read a saved plan
RosterInit ==
  /\ tables = DefaultTables
  /\ capacity = DefaultCapacity
  /\ guests \in Rosters
  /\ canvasTables = <<>>
  /\ uidCount = Len(guests)
  /\ saved = Snapshot(DefaultTables, DefaultCapacity, guests, <<>>)
  /\ lastOp = Op("mount", NULL, NULL, NULL, "none")
  /\ duplicateWarning = <<>>
  /\ fixtures = <<>>
  /\ roomSettings = DefaultRoomSettings
  /\ selectedItem = <<>>
  /\ wlTables = <<>>
  /\ wlFixtures = <<>>
  /\ wlRoomSettings = WeddingRoomSettings
  /\ wlSelectedItem = <<>>
  /\ wlClock = 0
  /\ wlLayoutType = "reception"
  /\ wlStored = Upsert(NoLayouts, "reception", DefaultLayout)
  /\ wlPending = {LoadRequest("reception", DefaultLayout)}
  /\ wlLatent = FALSE
  /\ cloudGuests = <<>>
  /\ cloudTables = <<>>
  /\ editingGuest = <<>>
  /\ formData = EmptyForm
  /\ kitchen = <<>>
  /\ currentEventId = NULL
  /\ cloudGroups = <<>>
  /\ managerGroups = <<>>
  /\ selectedGroupId = NULL
  /\ storedGuests = <<>>
  /\ storedGroups = <<>>
  /\ cloudPending = {}

\* pasted text of one or two lines, none with an "@N" suffix
PastedTexts ==
  UNION { [1..n -> [name : CandidateNames, hint : {0}]] : n \in 1..2 }

RosterNext ==
  \/ \E lines \in PastedTexts, proceed \in BOOLEAN : PasteLines(lines, proceed)
  \/ \E i \in 1..Len(guests) : RemoveGuest(guests[i].id)

RosterSpec == RosterInit /\ [][RosterNext]_vars

\* ----------------------------------------------------------------------
\* The canvas operations called with any id, and the layout import
\* ----------------------------------------------------------------------
\* a layout file: every part of layoutData is absent (<<>>) or present
LayoutFile(room, ts, fs) == [roomSettings |-> room, tables |-> ts, fixtures |-> fs]

\* the table an exported layout holds, its capacity as the file gives it
FileTable(c) ==
  [CreateTable(1, <<>>, 100, 100, "round") EXCEPT !.capacity = c]

FileCapacities == {0, DefaultTableCapacity}

LayoutFiles == {LayoutFile(<<>>, <<<<FileTable(c)>>>>, <<>>) : c \in FileCapacities}

\* importLayoutFromJSON, reader.onload: each present part replaces the state's
ImportLayoutFromJSON(file) ==
  /\ roomSettings' = IF file.roomSettings # <<>> THEN file.roomSettings[1] ELSE roomSettings
  /\ canvasTables' = IF file.tables # <<>> THEN file.tables[1] ELSE canvasTables
  /\ fixtures' = IF file.fixtures # <<>> THEN file.fixtures[1] ELSE fixtures
  /\ saved' = Snapshot(tables, capacity, guests, canvasTables')
  /\ lastOp' = Other
  /\ UNCHANGED <<tables, capacity, guests, uidCount, duplicateWarning, selectedItem,
                 weddingVars, cloudVars, eventVars>>

ContractNext ==
  \/ AddGuest(<<"a">>, NULL)
  \/ \E p \in AnchorPoints, sh \in AnchorShapes :
       Len(canvasTables) < MaxLayoutTables /\ AddTableToCanvas(p, sh)
  \/ \E g \in Ids, t \in Ids : AddGuestToTable(g, t)
  \/ \E g \in Ids : RemoveGuestFromTable(g)
  \/ \E i \in 1..Len(guests) : RemoveGuest(guests[i].id)
  \/ \E t \in Ids : RemoveTableFromCanvas(t)
  \/ \E i \in 1..Len(canvasTables), c \in NumberInputs : PromptCapacity(i, c)
  \/ \E file \in LayoutFiles : ImportLayoutFromJSON(file)

ContractSpec == Init /\ [][ContractNext]_vars

\* ----------------------------------------------------------------------
\* GroupsManager (src/components/GroupsManager.tsx) inside the signed-in page

Group(id) == [id |-> id]

GroupIds == {1, 2}

\* the guests of the event, some of them in a group
GroupRows(n) ==
  {[i \in 1..n |-> [id |-> i, name |-> JonSmith, table_num |-> NULL,
                    meal_selection |-> NoMeal, dietary_restrictions |-> <<>>,
                    group_id |-> of[i]]] : of \in [1..n -> {NULL} \cup GroupIds]}

\* the event is open and its guests and groups are loaded: the page holds
\* them ordered by name, the manager by creation date
GroupInit ==
  /\ tables = <<>>
  /\ capacity = [t \in {} |-> 0]
  /\ guests = <<>>
  /\ canvasTables = <<>>
  /\ uidCount = 0
  /\ saved = <<>>
  /\ lastOp = "init"
  /\ duplicateWarning = <<>>
  /\ fixtures = <<>>
  /\ roomSettings = DefaultRoomSettings
  /\ selectedItem = <<>>
  /\ wlTables = <<>>
  /\ wlFixtures = <<>>
  /\ wlRoomSettings = DefaultLayout.room
  /\ wlSelectedItem = <<>>
  /\ wlClock = 0
  /\ wlLayoutType = "reception"
  /\ wlStored = Upsert(NoLayouts, "reception", DefaultLayout)
  /\ wlPending = {LoadRequest("reception", DefaultLayout)}
  /\ wlLatent = FALSE
  /\ cloudTables = <<>>
  /\ editingGuest = <<>>
  /\ formData = EmptyForm
  /\ kitchen = <<>>
  /\ currentEventId = 1
  /\ storedGuests \in UNION {GroupRows(n) : n \in 0..MaxGroupGuests}
  /\ cloudGuests = storedGuests
  /\ storedGroups = <<Group(1), Group(2)>>
  /\ cloudGroups = <<Group(1), Group(2)>>
  /\ managerGroups = <<Group(2), Group(1)>>
  /\ selectedGroupId = NULL
  /\ cloudPending = {}

\* from('guests').update({ group_id: null }).eq('group_id', groupId)
UngroupRows(rows, groupId) ==
  [i \in 1..Len(rows) |->
     IF rows[i].group_id = groupId THEN [rows[i] EXCEPT !.group_id = NULL] ELSE rows[i]]

\* prev.filter(g => g.id !== groupId), also from('groups').delete().eq('id', groupId)
WithoutGroup(gs, groupId) == SelectSeq(gs, LAMBDA g : g.id # groupId)

DeleteOutcomes == {"deleted", "guestsError", "groupError"}

\* handleDeleteGroup, confirmed: the first failing request throws into the
\* catch, which only alerts
HandleDeleteGroup(groupId, outcome) ==
  /\ \E i \in 1..Len(managerGroups) : managerGroups[i].id = groupId
  /\ storedGuests' = IF outcome = "guestsError" THEN storedGuests
                     ELSE UngroupRows(storedGuests, groupId)
  /\ IF outcome = "deleted"
       THEN /\ storedGroups' = WithoutGroup(storedGroups, groupId)
            /\ managerGroups' = WithoutGroup(managerGroups, groupId)
            /\ selectedGroupId' = IF selectedGroupId = groupId THEN NULL ELSE selectedGroupId
       ELSE UNCHANGED <<storedGroups, managerGroups, selectedGroupId>>
  /\ UNCHANGED <<cloudGuests, cloudGroups, currentEventId, cloudPending, cloudTables,
                 editingGuest, formData, kitchen, listVars, designerVars, weddingVars>>

\* onGroupSelect(group.id) of a listed group, onGroupSelect(null) of 'All'
SelectGroup(groupId) ==
  /\ groupId # NULL => \E i \in 1..Len(managerGroups) : managerGroups[i].id = groupId
  /\ selectedGroupId' = groupId
  /\ UNCHANGED <<currentEventId, cloudGroups, managerGroups, storedGuests, storedGroups,
                 cloudPending, cloudVars, listVars, designerVars, weddingVars>>

GroupNext ==
  \/ \E g \in GroupIds, outcome \in DeleteOutcomes : HandleDeleteGroup(g, outcome)
  \/ \E g \in {NULL} \cup GroupIds : SelectGroup(g)

GroupSpec == GroupInit /\ [][GroupNext]_vars

\* ----------------------------------------------------------------------
\* The signed-in page: switching between events
\* ----------------------------------------------------------------------
EventIds == {1, 2}

\* the rows of the guests table with event_id = e, ordered by name
EventGuests(e) == <<CloudGuest(e, <<"a">>, IF e = 1 THEN 1 ELSE NULL)>>

\* the rows of the groups table with event_id = e
EventGroups(e) == <<Group(e)>>

\* the reception row of the layouts table with event_id = e: event 1 has
\* one, with a table, event 2 has none
EventLayout(e) ==
  IF e = 1 THEN <<[tables |-> <<[number |-> 1, capacity |-> 8]>>]>> ELSE <<>>

\* a select sent for the event the effect ran for
EventLoad(kind, e) == [kind |-> kind, event |-> e]

\* handleEventChange of another event, then the effect on currentEventId:
\* loadGuests(), loadGroups() and loadTables() send their requests
HandleEventChange(eventId) ==
  /\ eventId # currentEventId
  /\ currentEventId' = eventId
  /\ selectedGroupId' = NULL
  /\ editingGuest' = <<>>
  /\ formData' = EmptyForm
  /\ storedGuests' = EventGuests(eventId)
  /\ storedGroups' = EventGroups(eventId)
  /\ cloudPending' = cloudPending \cup {EventLoad("guests", eventId),
                                        EventLoad("groups", eventId),
                                        EventLoad("tables", eventId)}
  /\ UNCHANGED <<cloudGuests, cloudGroups, cloudTables, kitchen, managerGroups,
                 listVars, designerVars, weddingVars>>

\* loadGuests after its await, the request having returned without error
LoadGuests(req) ==
  /\ req \in cloudPending
  /\ req.kind = "guests"
  /\ cloudPending' = cloudPending \ {req}
  /\ cloudGuests' = EventGuests(req.event)
  /\ kitchen' = Rendered(kitchen, cloudGuests', cloudTables)
  /\ UNCHANGED <<cloudTables, cloudGroups, editingGuest, formData, currentEventId,
                 managerGroups, selectedGroupId, storedGuests, storedGroups,
                 listVars, designerVars, weddingVars>>

\* loadGroups after its await
LoadGroups(req) ==
  /\ req \in cloudPending
  /\ req.kind = "groups"
  /\ cloudPending' = cloudPending \ {req}
  /\ cloudGroups' = EventGroups(req.event)
  /\ UNCHANGED <<cloudVars, currentEventId, managerGroups, selectedGroupId,
                 storedGuests, storedGroups, listVars, designerVars, weddingVars>>

\* loadTables after its await: setTables only if (data?.tables)
LoadTables(req) ==
  /\ req \in cloudPending
  /\ req.kind = "tables"
  /\ cloudPending' = cloudPending \ {req}
  /\ cloudTables' = IF EventLayout(req.event) # <<>>
                    THEN EventLayout(req.event)[1].tables ELSE cloudTables
  /\ kitchen' = Rendered(kitchen, cloudGuests, cloudTables')
  /\ UNCHANGED <<cloudGuests, cloudGroups, editingGuest, formData, currentEventId,
                 managerGroups, selectedGroupId, storedGuests, storedGroups,
                 listVars, designerVars, weddingVars>>

EventNext ==
  \/ \E e \in EventIds : HandleEventChange(e)
  \/ \E req \in cloudPending : LoadGuests(req)
  \/ \E req \in cloudPending : LoadGroups(req)
  \/ \E req \in cloudPending : LoadTables(req)

EventSpec == Init /\ [][EventNext]_vars

\* ----------------------------------------------------------------------
\* Properties
\* ----------------------------------------------------------------------
GuestIdsOf(gs) == {gs[i].id : i \in 1..Len(gs)}
TableIdsOf(ts) == {ts[k].id : k \in 1..Len(ts)}

\* the number of times id occurs in a guest array
Occurrences(members, id) == Cardinality({j \in 1..Len(members) : members[j] = id})

\* the tables of ts whose guest array holds id
TablesHolding(ts, id) == {k \in 1..Len(ts) : Includes(ts[k].guests, id)}

\* C1: every canvas table holds at most as many guests as its capacity.
C1_OccupancyWithinCapacity ==
  \A k \in 1..Len(canvasTables) :
    Len(canvasTables[k].guests) <= canvasTables[k].capacity

\* C2: every guest with a table has exactly one canvas table of that number
\* whose guest array holds the guest's id.
C2_AssignedGuestHasOneTable ==
  \A i \in 1..Len(guests) :
    guests[i].table # NULL =>
      Cardinality({k \in 1..Len(canvasTables) :
                     /\ canvasTables[k].number = guests[i].table
                     /\ Includes(canvasTables[k].guests, guests[i].id)}) = 1

\* C3: every id in a table's guest array is the id of an existing guest whose
\* table field is that table's number.
C3_TableMembersPointBack ==
  \A k \in 1..Len(canvasTables) :
    \A j \in 1..Len(canvasTables[k].guests) :
      \E i \in 1..Len(guests) :
        /\ guests[i].id = canvasTables[k].guests[j]
        /\ guests[i].table = canvasTables[k].number

C5_FullTableRefuses ==
  [][\A k \in 1..Len(canvasTables) :
       ( /\ lastOp'.op = "addGuestToTable"
         /\ lastOp'.t = canvasTables[k].id
         /\ Len(canvasTables[k].guests) >= canvasTables[k].capacity )
       => ( /\ lastOp'.alert = "full"
            /\ guests' = guests
            /\ canvasTables' = canvasTables
            /\ tables' = tables
            /\ capacity' = capacity
            /\ saved' = saved )]_vars

\* the last handler was addGuestToTable on a full table
C5_Witness ==
  /\ lastOp.op = "addGuestToTable"
  /\ lastOp.alert = "full"
  /\ \E k \in 1..Len(canvasTables) :
       /\ canvasTables[k].id = lastOp.t
       /\ Len(canvasTables[k].guests) >= canvasTables[k].capacity

C7_DeleteReleasesEveryGuest ==
  [][\A k \in 1..Len(canvasTables) :
       ( /\ canvasTables' = WithoutTable(canvasTables, canvasTables[k].id)
         /\ \A c \in 1..Len(canvasTables) :
              c # k => canvasTables[c].number # canvasTables[k].number )
       => \A i \in 1..Len(guests') : guests'[i].table # canvasTables[k].number]_vars

\* C8: removing a guest takes its id out of the guest list and out of every
\* table's guest array.
C8_RemoveGuestClearsTables ==
  [][\A i \in 1..Len(guests) :
       guests' = WithoutId(guests, guests[i].id)
       => \A k \in 1..Len(canvasTables') :
            ~Includes(canvasTables'[k].guests, guests[i].id)]_vars

\* C9: a guest's table, when not null, is one of the list view's tables
\* 1..tables or the number of a canvas table.
C9_GuestTableExists ==
  \A i \in 1..Len(guests) :
    guests[i].table # NULL =>
      \/ guests[i].table \in 1..tables
      \/ \E k \in 1..Len(canvasTables) : canvasTables[k].number = guests[i].table

\* C10: addGuest with a name and a requested table that is at capacity puts
\* exactly one new guest, without a table, in front of the list, alerts that
\* the table is full and changes nothing else.
C10_AddGuestToFullTable ==
  [][( /\ lastOp'.op = "addGuest"
       /\ lastOp'.t \in 1..tables
       /\ TableMapCount(guests, lastOp'.t) >= capacity )
     => ( /\ lastOp'.alert = "fullAddedWithoutTable"
          /\ Len(guests') = Len(guests) + 1
          /\ Tail(guests') = guests
          /\ Head(guests').table = NULL
          /\ Head(guests').id \notin GuestIdsOf(guests)
          /\ canvasTables' = canvasTables
          /\ tables' = tables
          /\ capacity' = capacity )]_vars

\* a guest was just added without a table because the requested one was full
C10_Witness ==
  /\ lastOp.op = "addGuest"
  /\ lastOp.alert = "fullAddedWithoutTable"
  /\ Len(guests) >= 2
  /\ Head(guests).table = NULL
  /\ TableMapCount(guests, lastOp.t) >= capacity

\* C11: a guest that an import appends with a table N was given N only while
\* N is one of the table numbers and fewer than capacity guests, counting the
\* ones before it in the list and in the same batch, were at table N.
C11_ImportRespectsCapacity ==
  [][( /\ lastOp'.op = "other"
       /\ Len(guests') > Len(guests)
       /\ SubSeq(guests', 1, Len(guests)) = guests )
     => \A j \in (Len(guests) + 1)..Len(guests') :
          guests'[j].table # NULL =>
            /\ guests'[j].table \in 1..tables
            /\ TableMapCount(SubSeq(guests', 1, j - 1), guests'[j].table) < capacity]_vars

\* C13: no two canvas tables have the same number.
C13_TableNumbersUnique ==
  \A i, j \in 1..Len(canvasTables) :
    i # j => canvasTables[i].number # canvasTables[j].number

\* the guests of gs at table number n
CloudTableCount(gs, n) == Cardinality({i \in 1..Len(gs) : gs[i].table_num = n})

\* table number n does not exist or every table of that number is full
CloudTableRefuses(gs, ts, n) ==
  \A k \in 1..Len(ts) : ts[k].number = n => CloudTableCount(gs, n) >= ts[k].capacity

\* C12: a save of the guest editor that changes the guest's table number to a
\* table that does not exist or is at capacity is refused: the guest list does
\* not become the list with the edited guest in it.
C12_EditorChecksTable ==
  [][( /\ editingGuest # <<>>
       /\ formData.table_num # NULL
       /\ formData.table_num # editingGuest[1].table_num
       /\ CloudTableRefuses(cloudGuests, cloudTables, formData.table_num)
       /\ cloudGuests' = HandleGuestSave(cloudGuests, MergedGuest(editingGuest[1], formData)) )
     => cloudGuests' = cloudGuests]_vars

\* the position, size and rotation of a canvas table
Geometry(t) == <<t.x, t.y, t.width, t.height, t.rotation>>

\* C14: a step never changes the position, the size or the rotation of a
\* table that is locked before the step, whichever handler takes it.
C14_LockedTableKeepsGeometry ==
  [][\A k \in 1..Len(canvasTables) :
       canvasTables[k].locked =>
         \A j \in 1..Len(canvasTables') :
           canvasTables'[j].id = canvasTables[k].id =>
             Geometry(canvasTables'[j]) = Geometry(canvasTables[k])]_vars

\* C15: while snapToGrid is enabled, a step that changes the position or the
\* size of a table stores coordinates that are multiples of gridSize.
C15_TableUpdatesSnapped ==
  [][roomSettings.snapToGrid =>
       \A k \in 1..Len(canvasTables), j \in 1..Len(canvasTables') :
         ( /\ canvasTables'[j].id = canvasTables[k].id
           /\ Geometry(canvasTables'[j]) # Geometry(canvasTables[k]) )
         => /\ canvasTables'[j].x % roomSettings.gridSize = 0
            /\ canvasTables'[j].y % roomSettings.gridSize = 0]_vars

\* C16: under any grid settings, snapping a snapped coordinate returns it
\* unchanged, whether the snap is enabled or disabled.
C16_SnapIdempotent ==
  \A v \in (0 - MaxSnapValue)..MaxSnapValue :
    SnapToGrid(roomSettings, SnapToGrid(roomSettings, v)) = SnapToGrid(roomSettings, v)

\* a fixture placed at (23, 47) is stored at (20, 40) on a grid of 20, and
\* snapping its stored position again returns it
C16_Witness ==
  /\ roomSettings = [gridSize |-> 20, snapToGrid |-> TRUE]
  /\ \E i \in 1..Len(fixtures) :
       /\ fixtures[i].x = 20 /\ fixtures[i].y = 40
       /\ SnapToGrid(roomSettings, fixtures[i].x) = fixtures[i].x
       /\ SnapToGrid(roomSettings, fixtures[i].y) = fixtures[i].y

\* C17: a step that adds a fixture adds exactly one, stores it at a position
\* snapToGrid returns under the current settings (any position when the snap
\* is disabled), and changes no guest and no table.
C17_FixtureAddedOnGrid ==
  [][Len(wlFixtures') > Len(wlFixtures) =>
       /\ Len(wlFixtures') = Len(wlFixtures) + 1
       /\ SubSeq(wlFixtures', 1, Len(wlFixtures)) = wlFixtures
       /\ wlFixtures'[Len(wlFixtures')].x = WlSnapToGrid(wlFixtures'[Len(wlFixtures')].x)
       /\ wlFixtures'[Len(wlFixtures')].y = WlSnapToGrid(wlFixtures'[Len(wlFixtures')].y)
       /\ wlTables' = wlTables
       /\ UNCHANGED <<guests, canvasTables, cloudGuests>>]_vars

\* the aggregates with each table's dietary restrictions as a set
AggregateView(a) ==
  [a EXCEPT !.tableMeals =
     [n \in DOMAIN a.tableMeals |->
        [meals |-> a.tableMeals[n].meals, dietary |-> Range(a.tableMeals[n].dietary)]]]

\* C18: the aggregates the kitchen summary shows are those of every
\* permutation of its guest list: meal counts, dietary counts, per-table meal
\* counts, per-table sets of restrictions, assigned and unassigned counts.
C18_AggregatesOrderIndependent ==
  kitchen # <<>> =>
    \A f \in Permutations(1..Len(cloudGuests)) :
      AggregateView(Aggregates(Permuted(cloudGuests, f), cloudTables))
        = AggregateView(kitchen[1])

\* the summary is shown for a list one of whose reorderings builds a table's
\* restriction list in another order
C18_Witness ==
  /\ kitchen # <<>>
  /\ \E f \in Permutations(1..Len(cloudGuests)) :
       /\ Permuted(cloudGuests, f) # cloudGuests
       /\ Aggregates(Permuted(cloudGuests, f), cloudTables).tableMeals
            # kitchen[1].tableMeals

\* the guests that chose meal m / that list restriction d
GuestsWithMeal(gs, m) == {i \in 1..Len(gs) : gs[i].meal_selection = m}
GuestsListing(gs, d) == {i \in 1..Len(gs) : d \in Range(gs[i].dietary_restrictions)}

SameIgnoringCase(a, b) == ToLowerCase(a) = ToLowerCase(b)

\* (max(len1, len2) - levenshtein) / max(len1, len2) > 0.8 on the lower-cased
\* names; two empty names have similarity 1
SimilarityOver80(a, b) ==
  LET la == ToLowerCase(a)
      lb == ToLowerCase(b)
      max == IF Len(la) > Len(lb) THEN Len(la) ELSE Len(lb)
  IN max = 0 \/ (max - LevenshteinDistance(la, lb)) * 10 > max * 8

HasWarning(warnings, kind) == \E k \in 1..Len(warnings) : warnings[k].kind = kind

\* C20 as stated: the exact-match warning iff some existing name equals the
\* candidate ignoring case, the near-duplicate warning iff some existing name
\* has similarity over 0.8, nothing with neither.
C20_AsStated ==
  \A c \in CandidateNames :
    LET w == CheckForDuplicates(guests, <<c>>)
        exact == \E i \in 1..Len(guests) : SameIgnoringCase(c, guests[i].name)
        near == \E i \in 1..Len(guests) : SimilarityOver80(c, guests[i].name)
    IN /\ HasWarning(w, "exact") <=> exact
       /\ HasWarning(w, "similar") <=> near
       /\ (~exact /\ ~near) => w = <<>>

\* C20: the exact-match warning iff some existing name equals the candidate
\* ignoring case; the near-duplicate warning iff none does and some existing
\* name has similarity over 0.8 to it; nothing with neither.
C20_Classifies ==
  \A c \in CandidateNames :
    LET w == CheckForDuplicates(guests, <<c>>)
        exact == \E i \in 1..Len(guests) : SameIgnoringCase(c, guests[i].name)
        near == \E i \in 1..Len(guests) : SimilarityOver80(c, guests[i].name)
    IN /\ HasWarning(w, "exact") <=> exact
       /\ HasWarning(w, "similar") <=> (~exact /\ near)
       /\ (~exact /\ ~near) => w = <<>>

\* a declined paste has left an exact-match warning and a near-duplicate
\* warning behind, both against 'Jon Smith'
C20_Witness ==
  /\ \E i \in 1..Len(guests) : guests[i].name = JonSmith
  /\ duplicateWarning = <<ExactWarning(JonSmithLower), SimilarWarning(JonSmyth, JonSmith)>>
  /\ CheckForDuplicates(guests, <<MariaLopez>>) = <<>>

\* C21: the warnings of a pasted list name no candidate twice for the same
\* reason (exact match, or similar).
C21_OneWarningPerNameAndReason ==
  \A i, j \in 1..Len(duplicateWarning) :
    ( /\ duplicateWarning[i].name = duplicateWarning[j].name
      /\ duplicateWarning[i].kind = duplicateWarning[j].kind ) => i = j

\* the tables, fixtures and room settings WeddingLayout holds
WlMemory == LayoutSnapshot(wlRoomSettings, wlTables, wlFixtures)

\* C23: when a load of a layout type returns and the layouts table has no row
\* of that type, the component holds the defaults afterwards and a save of
\* the defaults for that type has been sent.
C23_NotFoundInitializesDefaults ==
  [][\A req \in wlPending \ wlPending' :
       (req.kind = "load" /\ wlStored[req.type] = <<>>) =>
         /\ WlMemory' = DefaultLayout
         /\ SaveRequest(req.type, DefaultLayout) \in wlPending']_vars

\* C24: with no request in flight, the stored row of the current layout type
\* is the state the component holds.
C24_QuiescentStoreMatchesMemory ==
  wlPending = {} => wlStored[wlLayoutType] = <<WlMemory>>

GroupIdsOf(gs) == {gs[i].id : i \in 1..Len(gs)}

GroupRefs(rows) == {rows[i].group_id : i \in 1..Len(rows)}

\* C22: a step that deletes a group from the stored groups takes it out of
\* the group lists, leaves no stored guest and no guest held by the page
\* with that group_id, and deletes no guest
C22_DeleteGroupUngroupsGuests ==
  [][\A g \in GroupIdsOf(storedGroups) \ GroupIdsOf(storedGroups') :
       /\ g \notin GroupIdsOf(managerGroups')
       /\ g \notin GroupRefs(storedGuests')
       /\ g \notin GroupRefs(cloudGuests')
       /\ Len(storedGuests') = Len(storedGuests)
       /\ Len(cloudGuests') = Len(cloudGuests)]_vars

\* guests, tables and fixtures are what they were
SameRoom ==
  /\ guests' = guests
  /\ canvasTables' = canvasTables
  /\ fixtures' = fixtures

\* C25: an assignment, an unassignment or a deletion given the id of no
\* guest, or of no table, changes no guest, no table and no fixture
C25_UnknownIdIsNoOp ==
  [][/\ \A g \in Ids, t \in Ids :
          (g \notin GuestIdsOf(guests) \/ t \notin TableIdsOf(canvasTables))
            /\ AddGuestToTable(g, t) => SameRoom
     /\ \A g \in Ids \ GuestIdsOf(guests) : RemoveGuestFromTable(g) => SameRoom
     /\ \A t \in Ids \ TableIdsOf(canvasTables) : RemoveTableFromCanvas(t) => SameRoom]_vars

\* C26: the capacity of every table of the canvas is a positive integer
C26_CapacityPositive ==
  \A i \in 1..Len(canvasTables) : canvasTables[i].capacity \in Nat \ {0}

\* C28: a resize of an unlocked table stores the new width and height and the
\* position, and leaves the capacity, the number and the guests of the table
C28_ResizeIsGeometryOnly ==
  [][\A i \in 1..Len(canvasTables), d \in ResizeDims, p \in AnchorPoints :
       TableResizeStop(i, d, p) =>
         /\ canvasTables'[i].width = d[1]
         /\ canvasTables'[i].height = d[2]
         /\ canvasTables'[i].x = p[1]
         /\ canvasTables'[i].y = p[2]
         /\ canvasTables'[i].capacity = canvasTables[i].capacity
         /\ canvasTables'[i].number = canvasTables[i].number
         /\ canvasTables'[i].guests = canvasTables[i].guests]_vars

\* the guests whose table_num is n
GuestsAtTable(gs, n) == {i \in 1..Len(gs) : gs[i].table_num = n}

\* C27: the guest count the per-table breakdown shows for a table is the
\* number of guests with that table_num, with or without a meal selection,
\* and every guest with a table_num has its table in the breakdown
C27_BreakdownCountsGuests ==
  kitchen # <<>> =>
    /\ \A n \in DOMAIN kitchen[1].tableMeals :
         BreakdownGuests(kitchen[1].tableMeals[n])
           = Cardinality(GuestsAtTable(cloudGuests, n))
    /\ \A i \in 1..Len(cloudGuests) :
         cloudGuests[i].table_num # NULL =>
           cloudGuests[i].table_num \in DOMAIN kitchen[1].tableMeals

EventTables(e) == IF EventLayout(e) # <<>> THEN EventLayout(e)[1].tables ELSE <<>>

\* C30: once no load is pending, the guests, the groups and the tables the
\* page holds are those of the current event
C30_MemoryIsCurrentEvent ==
  (currentEventId # NULL /\ cloudPending = {}) =>
    /\ cloudGuests = EventGuests(currentEventId)
    /\ cloudGroups = EventGroups(currentEventId)
    /\ cloudTables = EventTables(currentEventId)

====
